---------------------------- MODULE Spec2Model ----------------------------
(***************************************************************************)
(* Verification model of the EduTest AI student portal                     *)
(* (miller00315/studente_ai_manager).                                      *)
(*                                                                         *)
(*   StudentExamRoom  (src/components/StudentExamRoom.tsx)                 *)
(*       initExam, handleSelectOption, calculateScore, handleSubmit        *)
(*   App  (src/unnamed/part_002)                                           *)
(*       fetchRole, handleLoginSuccess, initAuth, onAuthStateChange,       *)
(*       the session check interval, the role re-check effect, render      *)
(*   StudentDashboard  (src/unnamed/part_000)                              *)
(*       fetchData, getTestStatus, the four status lists                   *)
(*   StudentClassViewer  (src/components/StudentClassViewer.tsx)           *)
(*       fetchData                                                         *)
(*                                                                         *)
(* Identifiers are natural numbers.  NullId stands for JavaScript's null   *)
(* and undefined.  Question i of the bank has the options 10*i+1 (key "A") *)
(* and 10*i+2 (key "B").                                                   *)
(***************************************************************************)
EXTENDS Integers, Sequences, FiniteSets, TLC

(***************************************************************************)
(* Bounds of the model.                                                    *)
(***************************************************************************)
\* Longest question list whose contents are drawn in every combination.
MaxQuestions == 2
\* Longest uniform question list (every question alike) handed to calculateScore.
MaxTotal == 40

NullId == 0

\* Most failed submissions the exam flow follows before it stops retrying.
MaxSubmits == 2

VARIABLES
    \* ---- backend tables (the external service), as far as the exam reads or writes them
    tqRows,         \* tests -> test_questions rows of the test, in the order the query returns them
    test_results,           \* rows inserted into test_results
    student_test_answers,   \* rows inserted into student_test_answers
    test_attempt_logs,      \* rows inserted into test_attempt_logs
    \* ---- StudentExamRoom component state (StudentExamRoom.tsx:16-23)
    test,           \* [loaded, questions]; loaded = FALSE is `test === null`
    student,        \* [loaded, id]; loaded = FALSE is `student === null`
    examLoading,    \* `loading`
    submitting,
    answers,        \* the answers object: entries [q, opt] in insertion order
    currentQIndex,  \* 0-based index of the question on screen
    \* ---- control state of the component's async functions
    loadPc,         \* initExam: "student" | "test" | "done"
    submitPc,       \* handleSubmit: "idle" | "insertResult" | "insertAnswers" | "insertLog"
    graded,         \* handleSubmit's locals: what calculateScore() returned, and resultData.id
    failedSubmits,  \* number of submissions that ended in the catch block
    exitSignal,     \* the parent callback the room has called: "none" | "onExit" | "onComplete"
    \* ---- history of what the student did (not state of the program)
    lastSelected,       \* per question id, the option the student selected last
    selectedAtSubmit,   \* lastSelected as it was when the last submission was confirmed
    changedSelection,   \* the student has replaced an earlier selection by another option
    \* ---- App (part_002)
    client,         \* getSupabaseClient() returned a client
    roleOfUser,     \* backend: what app_users -> user_rules holds for the user
    authSvc,        \* the auth service and the login screen: the user signed in, the
                    \* events to deliver, onLoginSuccess calls due and calls returned
                    \* at the guard, and the occurrences used up
    app,            \* App's useState values and refs (part_002:98-106)
    screen,         \* what App's last render returned (part_002:396-462)
    pc,             \* positions of App's effects and async functions
    roleCalls,      \* per caller, the query its fetchRole call waits for
    lateRoleCalls,  \* number of fetchRole calls still running whose caller stopped waiting
    \* ---- StudentDashboard (part_000)
    dash,           \* the component's useState values (part_000:14-17)
    dashPc,         \* position of fetchData and of the render in progress, with their locals
    clock,          \* what new Date() returns
    lists,          \* the four status lists of the render (part_000:163-166)
    \* ---- StudentClassViewer
    school,         \* backend tables the dashboard and the class view read
    viewer,         \* the component's useState values (StudentClassViewer.tsx:13-17)
    viewerPc,       \* position of fetchData, with its locals
    \* ---- StudentLayout (part_001)
    layout,         \* the component's useState values (part_001:22-24)
    lastConfirm     \* history: who called window.confirm last, and the user's answer

backendVars == <<tqRows, test_results, student_test_answers, test_attempt_logs>>
examVars == <<test, student, examLoading, submitting, answers, currentQIndex,
              loadPc, submitPc, graded, failedSubmits, exitSignal,
              lastSelected, selectedAtSubmit, changedSelection>>
appVars == <<client, roleOfUser, authSvc, app, screen, pc, roleCalls, lateRoleCalls>>
dashVars == <<dash, dashPc, clock, lists>>
viewerVars == <<school, viewer, viewerPc>>
layoutVars == <<layout, lastConfirm>>
vars == <<backendVars, examVars, appVars, dashVars, viewerVars, layoutVars>>

(***************************************************************************)
(* Generic sequence helpers (Array.prototype.map / filter / find).         *)
(***************************************************************************)
RECURSIVE SelectSeqBy(_, _)
\* Array.prototype.filter with the predicate given as the set of kept elements.
SelectSeqBy(s, keep) ==
    IF s = <<>> THEN <<>>
    ELSE IF Head(s) \in keep THEN <<Head(s)>> \o SelectSeqBy(Tail(s), keep)
         ELSE SelectSeqBy(Tail(s), keep)

Range(s) == {s[i] : i \in DOMAIN s}

(***************************************************************************)
(* IEEE-754 binary64 arithmetic, as far as calculateScore uses it:         *)
(*     Math.round((correctCount / totalQuestions) * 100)                   *)
(* A significand is a sequence of bits, most significant first, so that no *)
(* number of the model exceeds a machine integer.                          *)
(***************************************************************************)
MantissaBits == 53
\* The product by 100 is formed in three limbs, the two low ones this wide.
LimbBits == 18

RECURSIVE BitsToNat(_)
\* The value of a bit string of at most one limb.
BitsToNat(bits) ==
    IF bits = <<>> THEN 0
    ELSE 2 * BitsToNat(SubSeq(bits, 1, Len(bits) - 1)) + bits[Len(bits)]

\* n written in exactly `width` bits.
NatToBits(n, width) == [i \in 1..width |-> (n \div (2 ^ (width - i))) % 2]

RECURSIVE Pow2Mod(_, _)
\* 2^e modulo m, by repeated squaring.
Pow2Mod(e, m) ==
    IF e = 0 THEN 1 % m
    ELSE LET h == Pow2Mod(e \div 2, m)
         IN  IF e % 2 = 0 THEN (h * h) % m ELSE (2 * h * h) % m

\* The remainder left after `count` steps of the long division rem / den.
RemainderAfter(rem, den, count) == (rem * Pow2Mod(count, den)) % den

\* The first `count` bits of the binary expansion of rem / den (rem < den).
QuotientBits(rem, den, count) ==
    [i \in 1..count |-> IF 2 * RemainderAfter(rem, den, i - 1) >= den THEN 1 ELSE 0]

\* bits + 1, one bit longer when every bit was 1.
IncBits(bits) ==
    LET zeros == {i \in DOMAIN bits : bits[i] = 0}
    IN  IF zeros = {} THEN <<1>> \o [i \in DOMAIN bits |-> 0]
        ELSE LET j == CHOOSE i \in zeros : \A k \in zeros : k <= i
             IN  [i \in DOMAIN bits |-> IF i < j THEN bits[i] ELSE IF i = j THEN 1 ELSE 0]

\* The exact product bits * 100 of a MantissaBits-bit significand, as bits.
MulBits100(bits) ==
    LET base == 2 ^ LimbBits
        hiLen == MantissaBits - 2 * LimbBits
        hi  == BitsToNat(SubSeq(bits, 1, hiLen))
        mid == BitsToNat(SubSeq(bits, hiLen + 1, hiLen + LimbBits))
        lo  == BitsToNat(SubSeq(bits, hiLen + LimbBits + 1, MantissaBits))
        pl  == lo * 100
        pm  == mid * 100 + pl \div base
        ph  == hi * 100 + pm \div base
        w   == CHOOSE k \in 1..(hiLen + 7) : 2 ^ (k - 1) <= ph /\ ph < 2 ^ k
    IN  NatToBits(ph, w) \o NatToBits(pm % base, LimbBits) \o NatToBits(pl % base, LimbBits)

\* Round-to-nearest-even of a significand `bits` (leading bit 1) followed by a
\* guard bit and a sticky flag, to MantissaBits bits.  Returns the bits and the
\* number of binary places the value moved up (1 when the increment carried out).
RoundNearestEven(bits, guard, sticky) ==
    LET up  == guard = 1 /\ (sticky \/ bits[Len(bits)] = 1)
        inc == IF up THEN IncBits(bits) ELSE bits
    IN  IF Len(inc) > MantissaBits
        THEN [bits |-> SubSeq(inc, 1, MantissaBits), shift |-> 1]
        ELSE [bits |-> inc, shift |-> 0]

RECURSIVE Normalize(_, _, _)
\* Scale num up until den <= num < 2*den; returns [num, k] with the original
\* num = num' / 2^k.
Normalize(num, den, k) ==
    IF num >= den THEN [num |-> num, k |-> k] ELSE Normalize(2 * num, den, k + 1)

\* The double nearest to num / den for 0 < num <= den:
\* value = BitsToNat(bits) * 2^(-scale), bits of length MantissaBits.
DoubleDiv(num, den) ==
    LET n    == Normalize(num, den, 0)
        rem0 == n.num - den
        raw  == <<1>> \o QuotientBits(rem0, den, MantissaBits - 1)
        rem1 == RemainderAfter(rem0, den, MantissaBits - 1)
        g    == IF 2 * rem1 >= den THEN 1 ELSE 0
        st   == (2 * rem1 - g * den) # 0
        r    == RoundNearestEven(raw, g, st)
    IN  [bits |-> r.bits, scale |-> n.k + (MantissaBits - 1) - r.shift]

\* The double nearest to x * 100 for a double x.
DoubleMul100(x) ==
    LET p     == MulBits100(x.bits)
        drop  == Len(p) - MantissaBits
        kept  == SubSeq(p, 1, MantissaBits)
        g     == p[MantissaBits + 1]
        st    == \E i \in (MantissaBits + 2)..Len(p) : p[i] = 1
        r     == RoundNearestEven(kept, g, st)
    IN  [bits |-> r.bits, scale |-> x.scale - drop - r.shift]

\* Math.round of a positive double: the nearest integer, a tie going up.
MathRound(x) ==
    LET nInt == Len(x.bits) - x.scale     \* number of integer bits
    IN  IF nInt < 0 THEN 0
        ELSE BitsToNat(SubSeq(x.bits, 1, nInt))
             + (IF nInt < Len(x.bits) THEN x.bits[nInt + 1] ELSE 0)

\* Math.round((correctCount / totalQuestions) * 100), StudentExamRoom.tsx:116.
RoundedPercent(correctCount, totalQuestions) ==
    IF correctCount = 0 THEN 0
    ELSE MathRound(DoubleMul100(DoubleDiv(correctCount, totalQuestions)))


(***************************************************************************)
(* Backend data of an exam.                                                *)
(***************************************************************************)
\* The props StudentLayout hands to the room (part_001:61-64).
Props == [releaseId |-> 1, testId |-> 1, studentId |-> 1]

Weights == {1, 2}

\* A question_options row.
Option(q, k, ok) ==
    [id |-> 10 * q + (IF k = "A" THEN 1 ELSE 2), key |-> k, is_correct |-> ok]

\* A questions row (with its embedded question_options, in the order given).
Question(q, del, opts) == [id |-> q, deleted |-> del, question_options |-> opts]

\* A test_questions row (with its embedded questions row).
TestQuestion(idx, w, qrow) == [order_index |-> idx, weight |-> w, questions |-> qrow]

\* The test_questions rows the exam flow is run on.
BankRow1 == TestQuestion(1, 1, Question(1, FALSE, <<Option(1, "B", FALSE), Option(1, "A", TRUE)>>))
BankRow2 == TestQuestion(2, 2, Question(2, FALSE, <<Option(2, "A", FALSE), Option(2, "B", TRUE)>>))
BankRow3 == TestQuestion(3, 1, Question(3, TRUE,  <<Option(3, "A", TRUE),  Option(3, "B", FALSE)>>))
BankRow4 == TestQuestion(4, 2, Question(4, FALSE, <<Option(4, "A", FALSE), Option(4, "B", FALSE)>>))

\* The answers to the tests query the exam flow is run on: what
\* tests -> test_questions holds, in the order the backend returns the rows.
BackendTests ==
    { <<>>,
      <<BankRow1>>,
      <<BankRow3>>,
      <<BankRow1, BankRow2>>,
      <<BankRow2, BankRow1>>,
      <<BankRow3, BankRow1>>,
      <<BankRow4, BankRow3, BankRow2>>,
      <<BankRow2, BankRow3, BankRow4>> }

(***************************************************************************)
(* initExam: flatten, filter deleted, sort (StudentExamRoom.tsx:57-64).    *)
(***************************************************************************)
\* Array.prototype.sort is stable; `ranks` gives, per element, the value the
\* comparator orders by.  Element i moves behind every element of lower rank
\* and behind the earlier elements of equal rank.
StableSortByRank(s, ranks) ==
    LET pos(i) == 1 + Cardinality({j \in DOMAIN s :
                        ranks[j] < ranks[i] \/ (ranks[j] = ranks[i] /\ j < i)})
    IN  [p \in DOMAIN s |-> s[CHOOSE i \in DOMAIN s : pos(i) = p]]

\* (a.key || '').localeCompare(b.key || '') orders "" < "A" < "B".
KeyRank(k) == CASE k = "A" -> 1 [] k = "B" -> 2 [] OTHER -> 0

SortOptions(opts) == StableSortByRank(opts, [i \in DOMAIN opts |-> KeyRank(opts[i].key)])

\* { ...tq.questions, weight: tq.weight, question_options: sorted }.  The
\* object has the columns of questions and the weight: order_index is a
\* column of test_questions and is not copied.
FlattenQuestion(tq) ==
    [id               |-> tq.questions.id,
     deleted          |-> tq.questions.deleted,
     weight           |-> tq.weight,
     question_options |-> SortOptions(tq.questions.question_options)]

\* The value `a.order_index - b.order_index` orders by.  On an object without
\* order_index the difference is NaN, which sort takes as 0: every element
\* has the same rank.
OrderRank(q) == IF "order_index" \in DOMAIN q THEN q.order_index ELSE 0

\* initExam without the filter on deleted.
LoadQuestionsKeepDeleted(rows) ==
    LET flat == [i \in DOMAIN rows |-> FlattenQuestion(rows[i])]
    IN  StableSortByRank(flat, [i \in DOMAIN flat |-> OrderRank(flat[i])])

LoadQuestions(rows) ==
    LET flat == [i \in DOMAIN rows |-> FlattenQuestion(rows[i])]
        live == SelectSeqBy(flat, {q \in Range(flat) : ~q.deleted})
    IN  StableSortByRank(live, [i \in DOMAIN live |-> OrderRank(live[i])])

(***************************************************************************)
(* The answers object (StudentExamRoom.tsx:22, 78-80).                     *)
(***************************************************************************)
\* answers[questionId]; NullId when the key is absent.
AnswerOf(ans, q) ==
    IF \E i \in DOMAIN ans : ans[i].q = q
    THEN ans[CHOOSE i \in DOMAIN ans : ans[i].q = q].opt
    ELSE NullId

\* { [questionId]: optionId, ...prev }: the spread written last, so that an
\* earlier selection overrides the new one.
SetAnswerSpreadLast(prev, q, opt) ==
    IF \E i \in DOMAIN prev : prev[i].q = q
    THEN prev
    ELSE <<[q |-> q, opt |-> opt]>> \o prev

\* { ...prev, [questionId]: optionId }: an existing key keeps its place, a new
\* key goes last.
SetAnswer(prev, q, opt) ==
    IF \E i \in DOMAIN prev : prev[i].q = q
    THEN [i \in DOMAIN prev |-> IF prev[i].q = q THEN [q |-> q, opt |-> opt] ELSE prev[i]]
    ELSE Append(prev, [q |-> q, opt |-> opt])

(***************************************************************************)
(* calculateScore (StudentExamRoom.tsx:82-119).                            *)
(***************************************************************************)
NoOption == [id |-> NullId, key |-> "", is_correct |-> FALSE]

\* Array.prototype.find: the first element in `hits`, NoOption if none.
FindOption(opts, hits) ==
    IF \E i \in DOMAIN opts : opts[i] \in hits
    THEN opts[CHOOSE i \in DOMAIN opts :
                 opts[i] \in hits /\ \A j \in DOMAIN opts : opts[j] \in hits => i <= j]
    ELSE NoOption

\* GradeQuestion without `selectedOptId != null`.
GradeQuestionNoNullCheck(q, idx, ans) ==
    LET selectedOptId == AnswerOf(ans, q.id)
        correctOpt    == FindOption(q.question_options,
                                    {o \in Range(q.question_options) : o.is_correct})
        selectedOpt   == FindOption(q.question_options,
                                    {o \in Range(q.question_options) : o.id = selectedOptId})
    IN  [number           |-> idx,
         questionId       |-> q.id,
         selectedOption   |-> IF selectedOpt.key # "" THEN selectedOpt.key ELSE "-",
         selectedOptionId |-> selectedOptId,
         correctOption    |-> IF correctOpt.key # "" THEN correctOpt.key ELSE "?",
         correctOptionId  |-> correctOpt.id,
         isCorrect        |-> selectedOptId = correctOpt.id]

\* One element of gradedAnswers (lines 89-111).
GradeQuestion(q, idx, ans) ==
    LET selectedOptId == AnswerOf(ans, q.id)
        correctOpt    == FindOption(q.question_options,
                                    {o \in Range(q.question_options) : o.is_correct})
        selectedOpt   == FindOption(q.question_options,
                                    {o \in Range(q.question_options) : o.id = selectedOptId})
    IN  [number           |-> idx,
         questionId       |-> q.id,
         selectedOption   |-> IF selectedOpt.key # "" THEN selectedOpt.key ELSE "-",
         selectedOptionId |-> selectedOptId,
         correctOption    |-> IF correctOpt.key # "" THEN correctOpt.key ELSE "?",
         correctOptionId  |-> correctOpt.id,
         isCorrect        |-> selectedOptId # NullId /\ selectedOptId = correctOpt.id]

NoScore == [score |-> 0, correctCount |-> 0, errorCount |-> 0, gradedAnswers |-> <<>>]

CalculateScore(t, ans) ==
    IF ~t.loaded THEN NoScore
    ELSE LET totalQuestions == Len(t.questions)
             gradedAnswers  == [i \in DOMAIN t.questions |-> GradeQuestion(t.questions[i], i, ans)]
             correctCount   == Cardinality({i \in DOMAIN gradedAnswers : gradedAnswers[i].isCorrect})
             errorCount     == totalQuestions - correctCount
             score          == IF totalQuestions > 0
                               THEN RoundedPercent(correctCount, totalQuestions) ELSE 0
         IN  [score |-> score, correctCount |-> correctCount,
              errorCount |-> errorCount, gradedAnswers |-> gradedAnswers]

(***************************************************************************)
(* Initial values of the components, and the components left at rest in    *)
(* the behaviours that are about another one.                              *)
(***************************************************************************)
\* The roles of user_rules other than the portal's own, and what the backend
\* can hold for a user: a role, a profile row without a rule ("norule"), or
\* no profile row ("norow").
OtherRoles == {"Teacher"}
BackendRoles == {"Student"} \cup OtherRoles \cup {"norule", "norow"}

\* useState initial values and refs of App (part_002:98-106).  A session is
\* the id of its user, NullId without one.
AppState0 ==
    [session |-> NullId, userRole |-> "Student", authLoading |-> TRUE,
     isConnected |-> FALSE, roleCheckAttempted |-> FALSE,
     loginProcessingRef |-> FALSE, signInProcessingRef |-> FALSE,
     profileResolvedRef |-> FALSE]

\* Nothing of App running yet: the first render has been returned, no effect has run.
Pc0 ==
    [mount |-> "rendered", init |-> "idle", login |-> "idle", polls |-> 0,
     currentSession |-> NullId, signin |-> "idle", recovery |-> "idle", check |-> "idle"]

Callers == {"init", "login", "signin", "recheck"}
NoRoleCalls == [c \in Callers |-> "none"]
NoLateRoleCalls == 0

AppAtRest ==
    /\ client = TRUE
    /\ roleOfUser = "Student"
    /\ authSvc = [user |-> NullId, events |-> <<>>, used |-> 0, loginCallsDue |-> 0,
                  callsIgnored |-> 0]
    /\ app = AppState0
    /\ screen = "setup"
    /\ pc = Pc0
    /\ roleCalls = NoRoleCalls
    /\ lateRoleCalls = NoLateRoleCalls

\* The backend rows the dashboard and the class view read: whether the user
\* has an app_users row, the user's students row, the test_releases of the
\* student, the student's class, and the disciplines and class_professors
\* rows of that class.
School0 ==
    [app_user |-> FALSE,
     student |-> [exists |-> FALSE, class_id |-> NullId],
     test_releases |-> <<>>,
     class |-> [grade_id |-> NullId],
     disciplines |-> <<>>,
     class_professors |-> <<>>]

\* useState initial values of StudentDashboard (part_000:14-17).
Dash0 == [releases |-> <<>>, results |-> <<>>, studentName |-> "", loading |-> TRUE]
NoLists == [activeTests |-> <<>>, upcomingTests |-> <<>>, completedTests |-> <<>>,
            expiredTests |-> <<>>]
NoCall == [id |-> NullId, start_time |-> 0, end_time |-> 0, now |-> 0, status |-> ""]
DashPc0 == [fetch |-> "idle", relData |-> <<>>, render |-> "none", at |-> 1,
            building |-> NoLists, lastCall |-> NoCall]

DashAtRest ==
    /\ dash = Dash0
    /\ dashPc = DashPc0
    /\ clock = 0
    /\ lists = NoLists

\* useState initial values of StudentClassViewer (StudentClassViewer.tsx:13-17).
Viewer0 == [loading |-> TRUE, error |-> FALSE, classData |-> NullId,
            disciplines |-> <<>>, classProfessors |-> <<>>]
ViewerPc0 == [at |-> "idle", appUser |-> FALSE, classId |-> NullId, gradeId |-> NullId]

ViewerIdle ==
    /\ viewer = Viewer0
    /\ viewerPc = ViewerPc0

ViewerAtRest ==
    /\ school = School0
    /\ ViewerIdle

\* A test_releases row, as far as the portal reads it.
Release(id, start, end) == [id |-> id, start_time |-> start, end_time |-> end]

\* `activeExam === null`.
NoRelease == Release(NullId, 0, 0)

\* useState initial values of StudentLayout (part_001:22-24).
Layout0 == [currentView |-> "dashboard", activeExam |-> NoRelease, isSidebarOpen |-> FALSE]

\* window.confirm has not been called.
NoConfirm == [by |-> "", ok |-> FALSE]

LayoutAtRest ==
    /\ layout = Layout0
    /\ lastConfirm = NoConfirm

\* The layout as it shows the exam room of the release of Props (part_001:56-67).
LayoutInExam ==
    /\ layout = [currentView |-> "exam",
                 activeExam |-> Release(Props.releaseId, 0, 1),
                 isSidebarOpen |-> FALSE]
    /\ lastConfirm = [by |-> "startExam", ok |-> TRUE]

\* isExamMode (part_001:56).  App renders the layout with a session only
\* (part_002:422-462).
IsExamMode == layout.currentView = "exam" /\ layout.activeExam # NoRelease

\* The dashboard is rendered (part_001:183).
DashMounted == layout.currentView = "dashboard"

\* What a step that leaves the layout in state l does to the dashboard: the
\* component keeps its state while it stays rendered; when it is not rendered
\* any more it is unmounted, and the next one starts from the initial state.
DashFollows(l) ==
    IF l.currentView = "dashboard"
    THEN UNCHANGED <<dash, dashPc, lists>>
    ELSE /\ dash' = Dash0
         /\ dashPc' = DashPc0
         /\ lists' = NoLists

\* The values of the generic View type handleNavigate is passed: the three
\* views of the student portal, and "tests" for every other value.
StudentViews == {"dashboard", "results", "my_class"}
Views == StudentViews \cup {"tests"}

\* handleNavigate without the dialog.
HandleNavigateToUnasked(l, view, confirmed) ==
    [l EXCEPT !.activeExam = IF l.currentView = "exam" THEN NoRelease ELSE @,
              !.currentView = IF view \in StudentViews THEN view ELSE @,
              !.isSidebarOpen = FALSE]

\* handleNavigate(view) (part_001:26-36): the layout after the call, confirmed
\* being the user's answer to the dialog, which is shown during an exam only.
HandleNavigateTo(l, view, confirmed) ==
    IF l.currentView = "exam" /\ ~confirmed
    THEN l
    ELSE [l EXCEPT !.activeExam = IF l.currentView = "exam" THEN NoRelease ELSE @,
                   !.currentView = IF view \in StudentViews THEN view ELSE @,
                   !.isSidebarOpen = FALSE]

\* startExam(release) (part_001:38-43): the layout after the call.
StartExamWith(l, release, confirmed) ==
    IF confirmed
    THEN [l EXCEPT !.activeExam = release, !.currentView = "exam"]
    ELSE l

\* The room's onExit prop (part_001:65).
OnExit(l) == [l EXCEPT !.activeExam = NoRelease, !.currentView = "dashboard"]

\* handleExamComplete without setActiveExam(null).
HandleExamCompleteKeepsExam(l) == [l EXCEPT !.currentView = "results"]

\* handleExamComplete, the room's onComplete prop (part_001:45-48).
HandleExamComplete(l) == [l EXCEPT !.activeExam = NoRelease, !.currentView = "results"]

(***************************************************************************)
(* StudentExamRoom: the component's steps.                                 *)
(***************************************************************************)
NotLoaded == [loaded |-> FALSE, questions |-> <<>>]
NoStudent == [loaded |-> FALSE, id |-> NullId]
\* releaseId is the prop the running handleSubmit closed over.
NotGraded == [done |-> FALSE, result |-> NoScore, resultId |-> NullId, releaseId |-> NullId]

ExamInit ==
    /\ tqRows \in BackendTests
    /\ test_results = <<>>
    /\ student_test_answers = <<>>
    /\ test_attempt_logs = <<>>
    /\ test = NotLoaded
    /\ student = NoStudent
    /\ examLoading = TRUE
    /\ submitting = FALSE
    /\ answers = <<>>
    /\ currentQIndex = 0
    /\ loadPc = "student"
    /\ submitPc = "idle"
    /\ graded = NotGraded
    /\ failedSubmits = 0
    /\ exitSignal = "none"
    /\ lastSelected = <<>>
    /\ selectedAtSubmit = <<>>
    /\ changedSelection = FALSE
    /\ AppAtRest /\ DashAtRest /\ ViewerAtRest /\ LayoutInExam

\* initExam up to the students query's answer (lines 30-37).  Without a row,
\* reading stuData.app_users throws: catch calls onExit, finally ends loading.
InitExamStudent ==
    /\ loadPc = "student"
    /\ \E found \in BOOLEAN :
         IF found
         THEN /\ student' = [loaded |-> TRUE, id |-> Props.studentId]
              /\ loadPc' = "test"
              /\ UNCHANGED <<examLoading, exitSignal, layout>>
         ELSE /\ exitSignal' = "onExit"
              /\ layout' = OnExit(layout)
              /\ examLoading' = FALSE
              /\ loadPc' = "done"
              /\ UNCHANGED student
    /\ UNCHANGED <<test, submitting, answers, currentQIndex, submitPc, graded,
                   failedSubmits, lastSelected, selectedAtSubmit, changedSelection>>
    /\ UNCHANGED backendVars
    /\ UNCHANGED <<appVars, dashVars, viewerVars, lastConfirm>>

\* initExam from the tests query's answer on (lines 40-73).
InitExamTest ==
    /\ loadPc = "test"
    /\ \E error \in BOOLEAN :
         IF error
         THEN /\ exitSignal' = "onExit"
              /\ layout' = OnExit(layout)
              /\ UNCHANGED test
         ELSE /\ test' = [loaded |-> TRUE, questions |-> LoadQuestions(tqRows)]
              /\ UNCHANGED <<exitSignal, layout>>
    /\ examLoading' = FALSE
    /\ loadPc' = "done"
    /\ UNCHANGED <<student, submitting, answers, currentQIndex, submitPc, graded,
                   failedSubmits, lastSelected, selectedAtSubmit, changedSelection>>
    /\ UNCHANGED backendVars
    /\ UNCHANGED <<appVars, dashVars, viewerVars, lastConfirm>>

\* The exam screen is rendered (line 174), and the parent has not closed the room.
RoomShown == IsExamMode /\ ~examLoading /\ test.loaded /\ exitSignal = "none"

\* test.questions[currentQIndex] exists (line 184, 208).
HasCurrentQuestion == currentQIndex + 1 \in DOMAIN test.questions

\* Only the options of the question on screen can be clicked (lines 217-236).
HandleSelectOption ==
    /\ RoomShown
    /\ HasCurrentQuestion
    /\ LET q == test.questions[currentQIndex + 1]
       IN  \E i \in DOMAIN q.question_options :
             /\ answers' = SetAnswer(answers, q.id, q.question_options[i].id)
             /\ lastSelected' = (q.id :> q.question_options[i].id) @@ lastSelected
             /\ changedSelection' =
                    (\/ changedSelection
                     \/ AnswerOf(answers, q.id) \notin {NullId, q.question_options[i].id})
    /\ UNCHANGED <<test, student, examLoading, submitting, currentQIndex, loadPc,
                   submitPc, graded, failedSubmits, exitSignal, selectedAtSubmit>>
    /\ UNCHANGED backendVars
    /\ UNCHANGED <<appVars, dashVars, viewerVars, layoutVars>>

\* "Anterior" (lines 245-251), disabled on the first question.
PrevQuestion ==
    /\ RoomShown
    /\ currentQIndex # 0
    /\ currentQIndex' = IF currentQIndex - 1 > 0 THEN currentQIndex - 1 ELSE 0
    /\ UNCHANGED <<test, student, examLoading, submitting, answers, loadPc,
                   submitPc, graded, failedSubmits, exitSignal, lastSelected, selectedAtSubmit, changedSelection>>
    /\ UNCHANGED backendVars
    /\ UNCHANGED <<appVars, dashVars, viewerVars, layoutVars>>

\* "Proxima" (lines 254-260), rendered before the last question.
NextQuestion ==
    /\ RoomShown
    /\ currentQIndex < Len(test.questions) - 1
    /\ currentQIndex' = IF currentQIndex + 1 < Len(test.questions) - 1
                        THEN currentQIndex + 1 ELSE Len(test.questions) - 1
    /\ UNCHANGED <<test, student, examLoading, submitting, answers, loadPc,
                   submitPc, graded, failedSubmits, exitSignal, lastSelected, selectedAtSubmit, changedSelection>>
    /\ UNCHANGED backendVars
    /\ UNCHANGED <<appVars, dashVars, viewerVars, layoutVars>>

\* "Finalizar" is rendered instead of "Proxima" and is disabled while submitting
\* (lines 254, 262-269).
CanClickSubmit ==
    /\ RoomShown
    /\ ~(currentQIndex < Len(test.questions) - 1)
    /\ ~submitting

\* handleSubmit up to the first await (lines 121-140).
HandleSubmit ==
    /\ CanClickSubmit
    /\ submitPc = "idle"
    /\ failedSubmits < MaxSubmits
    /\ \E confirmed \in BOOLEAN :
         /\ lastConfirm' = [by |-> "handleSubmit", ok |-> confirmed]
         /\ IF confirmed /\ test.loaded /\ student.loaded
            THEN /\ submitting' = TRUE
                 /\ graded' = [done |-> TRUE, result |-> CalculateScore(test, answers),
                               resultId |-> NullId, releaseId |-> layout.activeExam.id]
                 /\ submitPc' = "insertResult"
                 /\ selectedAtSubmit' = lastSelected
            ELSE UNCHANGED <<submitting, graded, submitPc, selectedAtSubmit>>
    /\ UNCHANGED <<test, student, examLoading, answers, currentQIndex, loadPc,
                   failedSubmits, exitSignal, lastSelected, changedSelection>>
    /\ UNCHANGED backendVars
    /\ UNCHANGED <<appVars, dashVars, viewerVars, layout>>

\* catch of handleSubmit without the finally block.
SubmitFailedWithoutFinally ==
    /\ UNCHANGED submitting
    /\ submitPc' = "idle"
    /\ failedSubmits' = failedSubmits + 1
    /\ UNCHANGED exitSignal

\* catch and finally of handleSubmit (lines 167-171).
SubmitFailed ==
    /\ submitting' = FALSE
    /\ submitPc' = "idle"
    /\ failedSubmits' = failedSubmits + 1
    /\ UNCHANGED exitSignal

\* The row handleSubmit inserts into test_results (lines 130-140).
ResultRow(rid, res) ==
    [id |-> rid, test_id |-> Props.testId, student_id |-> student.id,
     test_release_id |-> graded.releaseId, score |-> res.score,
     correct_count |-> res.correctCount, error_count |-> res.errorCount]

\* The answer of the test_results insert (lines 130-142).
InsertResultReturn ==
    /\ submitPc = "insertResult"
    /\ \E error \in BOOLEAN :
         IF error
         THEN /\ SubmitFailed
              /\ UNCHANGED <<test_results, graded>>
         ELSE LET rid == Len(test_results) + 1
              IN  /\ test_results' = Append(test_results, ResultRow(rid, graded.result))
                  /\ graded' = [graded EXCEPT !.resultId = rid]
                  /\ submitPc' = "insertAnswers"
                  /\ UNCHANGED <<submitting, failedSubmits, exitSignal>>
    /\ UNCHANGED <<test, student, examLoading, answers, currentQIndex, loadPc,
                   lastSelected, selectedAtSubmit, changedSelection>>
    /\ UNCHANGED <<tqRows, student_test_answers, test_attempt_logs>>
    /\ UNCHANGED <<appVars, dashVars, viewerVars, layoutVars>>

\* answerPayload with the unanswered questions left out.
AnswerPayloadAnsweredOnly(g) ==
    LET all == [i \in DOMAIN g.result.gradedAnswers |->
                   [test_result_id     |-> g.resultId,
                    question_id        |-> g.result.gradedAnswers[i].questionId,
                    selected_option_id |-> g.result.gradedAnswers[i].selectedOptionId,
                    is_correct         |-> g.result.gradedAnswers[i].isCorrect]]
    IN  SelectSeqBy(all, {r \in Range(all) : r.selected_option_id # NullId})

\* answerPayload (lines 145-150).
AnswerPayload(g) ==
    [i \in DOMAIN g.result.gradedAnswers |->
        [test_result_id     |-> g.resultId,
         question_id        |-> g.result.gradedAnswers[i].questionId,
         selected_option_id |-> g.result.gradedAnswers[i].selectedOptionId,
         is_correct         |-> g.result.gradedAnswers[i].isCorrect]]

\* The student_test_answers insert with `if (aError) throw aError` left out.
InsertAnswersReturnErrorUnchecked ==
    /\ submitPc = "insertAnswers"
    /\ \E error \in BOOLEAN :
         student_test_answers' =
            IF error THEN student_test_answers
            ELSE student_test_answers \o AnswerPayload(graded)
    /\ submitPc' = "insertLog"
    /\ UNCHANGED <<submitting, failedSubmits, exitSignal>>
    /\ UNCHANGED <<test, student, examLoading, answers, currentQIndex, loadPc,
                   graded, lastSelected, selectedAtSubmit, changedSelection>>
    /\ UNCHANGED <<tqRows, test_results, test_attempt_logs>>
    /\ UNCHANGED <<appVars, dashVars, viewerVars, layoutVars>>

\* The answer of the student_test_answers insert (lines 152-153).
InsertAnswersReturn ==
    /\ submitPc = "insertAnswers"
    /\ \E error \in BOOLEAN :
         IF error
         THEN /\ SubmitFailed
              /\ UNCHANGED student_test_answers
         ELSE /\ student_test_answers' = student_test_answers \o AnswerPayload(graded)
              /\ submitPc' = "insertLog"
              /\ UNCHANGED <<submitting, failedSubmits, exitSignal>>
    /\ UNCHANGED <<test, student, examLoading, answers, currentQIndex, loadPc,
                   graded, lastSelected, selectedAtSubmit, changedSelection>>
    /\ UNCHANGED <<tqRows, test_results, test_attempt_logs>>
    /\ UNCHANGED <<appVars, dashVars, viewerVars, layoutVars>>

\* The answer of the test_attempt_logs insert, whose error is not looked at;
\* then onComplete and finally (lines 156-171).
InsertLogReturn ==
    /\ submitPc = "insertLog"
    /\ \E error \in BOOLEAN :
         test_attempt_logs' =
            IF error THEN test_attempt_logs
            ELSE Append(test_attempt_logs,
                        [test_release_id |-> graded.releaseId, attempt_number |-> 1,
                         preliminary_score |-> graded.result.score])
    /\ exitSignal' = "onComplete"
    /\ layout' = HandleExamComplete(layout)
    /\ submitting' = FALSE
    /\ submitPc' = "idle"
    /\ UNCHANGED <<test, student, examLoading, answers, currentQIndex, loadPc,
                   graded, failedSubmits, lastSelected, selectedAtSubmit, changedSelection>>
    /\ UNCHANGED <<tqRows, test_results, student_test_answers>>
    /\ DashFollows(HandleExamComplete(layout))
    /\ UNCHANGED <<appVars, clock, viewerVars, lastConfirm>>

ExamNext ==
    \/ InitExamStudent
    \/ InitExamTest
    \/ HandleSelectOption
    \/ PrevQuestion
    \/ NextQuestion
    \/ HandleSubmit
    \/ InsertResultReturn
    \/ InsertAnswersReturn
    \/ InsertLogReturn

\* The exam room from mount to onComplete or onExit.
Spec == ExamInit /\ [][ExamNext]_vars

(***************************************************************************)
(* calculateScore as a function: a loaded room with a question list and    *)
(* an answers object drawn from bounded sets, and one call.                *)
(***************************************************************************)
\* Every test_questions list of a given length: per row a weight, the deleted
\* flag and the two is_correct flags, in every combination.
RowsOfLength(n) ==
    LET RowChoices == [w : Weights, del : BOOLEAN, a : BOOLEAN, b : BOOLEAN]
    IN  { [i \in 1..n |->
             TestQuestion(i, c[i].w,
                          Question(i, c[i].del,
                                   <<Option(i, "A", c[i].a), Option(i, "B", c[i].b)>>))]
          : c \in [1..n -> RowChoices] }

\* A uniform list: n questions alike, option A the correct one.
UniformRows(n) ==
    [i \in 1..n |->
        TestQuestion(i, 1, Question(i, FALSE, <<Option(i, "A", TRUE), Option(i, "B", FALSE)>>))]

\* An answers object per choice of one option (or none) for each question,
\* the keys in question order.
AnswerObjects(questions) ==
    LET pick(q, k) == IF k = 0 THEN NullId ELSE q.question_options[k].id
        full(f) == [i \in DOMAIN questions |->
                       [q |-> questions[i].id, opt |-> pick(questions[i], f[i])]]
    IN  { SelectSeqBy(full(f), {e \in Range(full(f)) : e.opt # NullId})
          : f \in [DOMAIN questions -> 0..2] }

\* The map an answers object stands for, over its own keys.
AnswersAsMap(ans) == [q \in {ans[i].q : i \in DOMAIN ans} |-> AnswerOf(ans, q)]

ScoreInit ==
    /\ \/ /\ tqRows \in UNION {RowsOfLength(n) : n \in 0..MaxQuestions}
          /\ answers \in AnswerObjects(LoadQuestions(tqRows))
       \/ \E n \in 0..MaxTotal, c \in 0..MaxTotal :
            /\ c <= n
            /\ tqRows = UniformRows(n)
            /\ answers = [i \in 1..c |-> [q |-> i, opt |-> 10 * i + 1]]
    /\ test = [loaded |-> TRUE, questions |-> LoadQuestions(tqRows)]
    /\ test_results = <<>>
    /\ student_test_answers = <<>>
    /\ test_attempt_logs = <<>>
    /\ student = [loaded |-> TRUE, id |-> Props.studentId]
    /\ examLoading = FALSE
    /\ submitting = FALSE
    /\ currentQIndex = 0
    /\ loadPc = "done"
    /\ submitPc = "idle"
    /\ graded = NotGraded
    /\ failedSubmits = 0
    /\ exitSignal = "none"
    /\ lastSelected = AnswersAsMap(answers)
    /\ selectedAtSubmit = <<>>
    /\ changedSelection = FALSE
    /\ AppAtRest /\ DashAtRest /\ ViewerAtRest /\ LayoutInExam

\* One call of calculateScore().
CallCalculateScore ==
    /\ ~graded.done
    /\ graded' = [done |-> TRUE, result |-> CalculateScore(test, answers),
                  resultId |-> NullId, releaseId |-> NullId]
    /\ UNCHANGED <<test, student, examLoading, submitting, answers, currentQIndex, loadPc,
                   submitPc, failedSubmits, exitSignal, lastSelected, selectedAtSubmit,
                   changedSelection>>
    /\ UNCHANGED backendVars
    /\ UNCHANGED <<appVars, dashVars, viewerVars, layoutVars>>

ScoreNext == CallCalculateScore

ScoreSpec == ScoreInit /\ [][ScoreNext]_vars

(***************************************************************************)
(* Properties of calculateScore.                                           *)
(***************************************************************************)
\* The id of the option of q flagged is_correct (of the first one in key
\* order, should several be flagged); NullId when none is.
FlaggedOptionId(q) ==
    LET flagged == {o \in Range(q.question_options) : o.is_correct}
    IN  IF flagged = {} THEN NullId
        ELSE (CHOOSE o \in flagged : \A p \in flagged : KeyRank(o.key) <= KeyRank(p.key)).id

\* The questions whose selected option is the one flagged is_correct.
RightlyAnswered(questions, ans) ==
    {i \in DOMAIN questions :
        /\ AnswerOf(ans, questions[i].id) # NullId
        /\ AnswerOf(ans, questions[i].id) = FlaggedOptionId(questions[i])}

\* num / den rounded to the nearest integer, a half going up.
RoundHalfUp(num, den) == (2 * num + den) \div (2 * den)

\* C2: calculateScore returns score = round(100 * correctCount / N), with
\* correctCount the number of questions whose selected option id is the id of
\* the question's option flagged is_correct; the score is 0 when N = 0;
\* weights play no part.
C2_ScoreIsRoundedPercentage ==
    graded.done =>
        LET n == Len(test.questions)
            c == Cardinality(RightlyAnswered(test.questions, answers))
        IN  /\ graded.result.correctCount = c
            /\ graded.result.score = IF n = 0 THEN 0 ELSE RoundHalfUp(100 * c, n)

\* C3: calculateScore counts each question once: one gradedAnswers entry per
\* question, in order; correctCount is the number of entries graded correct;
\* correctCount + errorCount = N; 0 <= correctCount <= N; 0 <= score <= 100;
\* and a question that is unanswered, or answered with another option than the
\* one flagged is_correct, or that has no flagged option, is graded an error.
C3_NoDoubleCounting ==
    graded.done =>
        LET r == graded.result
            n == Len(test.questions)
        IN  /\ Len(r.gradedAnswers) = n
            /\ \A i \in 1..n : /\ r.gradedAnswers[i].questionId = test.questions[i].id
                               /\ r.gradedAnswers[i].number = i
            /\ r.correctCount = Cardinality({i \in 1..n : r.gradedAnswers[i].isCorrect})
            /\ r.errorCount = Cardinality({i \in 1..n : ~r.gradedAnswers[i].isCorrect})
            /\ r.correctCount + r.errorCount = n
            /\ 0 <= r.correctCount /\ r.correctCount <= n
            /\ 0 <= r.score /\ r.score <= 100
            /\ \A i \in 1..n :
                 LET q   == test.questions[i]
                     sel == AnswerOf(answers, q.id)
                 IN  (\/ sel = NullId
                      \/ \A o \in Range(q.question_options) : ~o.is_correct
                      \/ \E o \in Range(q.question_options) : o.id = sel /\ ~o.is_correct)
                     => ~r.gradedAnswers[i].isCorrect

\* A call on the cases at once: a question without a flagged option left
\* unanswered, and one answered correctly.
C3_Witness ==
    /\ graded.done
    /\ \E i, k \in DOMAIN test.questions :
         /\ AnswerOf(answers, test.questions[i].id) = NullId
         /\ \A o \in Range(test.questions[i].question_options) : ~o.is_correct
         /\ graded.result.gradedAnswers[k].isCorrect
    /\ graded.result.errorCount >= 1

(***************************************************************************)
(* Properties of the exam room.                                            *)
(***************************************************************************)
\* The members of a finite set of numbers, ascending.
SortedSeq(S) ==
    [p \in 1..Cardinality(S) |-> CHOOSE k \in S : Cardinality({j \in S : j < k}) = p - 1]

\* The answers object holding exactly the selections of a map, keys ascending.
MapAsAnswers(m) ==
    LET keys == SortedSeq(DOMAIN m)
    IN  [i \in DOMAIN keys |-> [q |-> keys[i], opt |-> m[keys[i]]]]

\* m[q], NullId without a selection.
SelectionIn(m, q) == IF q \in DOMAIN m THEN m[q] ELSE NullId

\* The rows the completed submission wrote.
WrittenResults == SelectSeqBy(test_results, {r \in Range(test_results) : r.id = graded.resultId})
WrittenAnswers ==
    SelectSeqBy(student_test_answers,
                {r \in Range(student_test_answers) : r.test_result_id = graded.resultId})

\* What C4 says of the rows, given the selections they are to carry.
SubmissionRowsCarry(selections) ==
    LET expected == CalculateScore(test, MapAsAnswers(selections))
        n        == Len(test.questions)
    IN  /\ Len(WrittenResults) = 1
        /\ WrittenResults[1].test_id = Props.testId
        /\ WrittenResults[1].student_id = Props.studentId
        /\ WrittenResults[1].test_release_id = Props.releaseId
        /\ WrittenResults[1].score = expected.score
        /\ WrittenResults[1].correct_count = expected.correctCount
        /\ WrittenResults[1].error_count = expected.errorCount
        /\ Len(WrittenAnswers) = n
        /\ \A i \in 1..n :
             /\ WrittenAnswers[i].question_id = test.questions[i].id
             /\ WrittenAnswers[i].selected_option_id = SelectionIn(selections, test.questions[i].id)
             /\ WrittenAnswers[i].is_correct = expected.gradedAnswers[i].isCorrect
        /\ Cardinality({i \in 1..n : WrittenAnswers[i].is_correct}) = WrittenResults[1].correct_count

\* C4 as stated: when handleSubmit has completed successfully it has written
\* one test_results row with calculateScore's score and counts and one
\* student_test_answers row per question, carrying the option the student
\* selected last.
C4_RowsCarryLastSelection ==
    exitSignal = "onComplete" => SubmissionRowsCarry(lastSelected)

\* C4 (amended): ... carrying the option that was selected when the submission
\* was confirmed; a selection made while the inserts are in flight is not
\* recorded.
C4_RowsCarrySelectionAtSubmit ==
    exitSignal = "onComplete" => SubmissionRowsCarry(selectedAtSubmit)

\* A completed submission of a two-question test, one answer right, one wrong.
C4_Witness ==
    /\ exitSignal = "onComplete"
    /\ Len(WrittenAnswers) = 2
    /\ \E i, j \in 1..2 : WrittenAnswers[i].is_correct /\ ~WrittenAnswers[j].is_correct
                          /\ WrittenAnswers[j].selected_option_id # NullId
    /\ WrittenResults[1].score = 50

\* C8: the score is a function of the question list and the final answers
\* alone: whatever the order of the selections, the changes of mind and the
\* navigation that led to them, calculateScore returns what it returns for
\* the same selections entered once each in question order; and so does the
\* result a submission computes.
C8_ScoreDependsOnFinalAnswersOnly ==
    /\ test.loaded =>
         CalculateScore(test, answers) = CalculateScore(test, MapAsAnswers(lastSelected))
    /\ (graded.done /\ test.loaded) =>
         graded.result = CalculateScore(test, MapAsAnswers(selectedAtSubmit))

\* A submitted session in which the second question was answered before the
\* first and a selection was replaced.
C8_Witness ==
    /\ graded.done
    /\ changedSelection
    /\ Len(answers) = 2
    /\ answers[1].q = test.questions[2].id
    /\ answers[2].q = test.questions[1].id
    /\ graded.result.correctCount = 1

\* The ids of the questions flagged deleted in the backend.
DeletedIds == {tqRows[i].questions.id : i \in {j \in DOMAIN tqRows : tqRows[j].questions.deleted}}
LiveRowCount == Cardinality({j \in DOMAIN tqRows : ~tqRows[j].questions.deleted})

\* C10: a question flagged deleted is filtered out when the exam loads: it is
\* never presented, is not counted in N, contributes to neither count, and
\* gets no student_test_answers row.
C10_DeletedQuestionsFiltered ==
    /\ test.loaded =>
         /\ \A i \in DOMAIN test.questions : test.questions[i].id \notin DeletedIds
         /\ Len(test.questions) = LiveRowCount
    /\ \A i \in DOMAIN answers : answers[i].q \notin DeletedIds
    /\ graded.done =>
         /\ \A i \in DOMAIN graded.result.gradedAnswers :
                graded.result.gradedAnswers[i].questionId \notin DeletedIds
         /\ graded.result.correctCount + graded.result.errorCount = LiveRowCount
    /\ \A i \in DOMAIN student_test_answers :
            student_test_answers[i].question_id \notin DeletedIds

\* A completed submission of a test that holds a deleted question.
C10_Witness ==
    /\ exitSignal = "onComplete"
    /\ DeletedIds # {}
    /\ Len(student_test_answers) = 2
    /\ Len(tqRows) = 3

\* The order_index that test_questions holds for the question of id q.
OrderIndexOf(q) ==
    tqRows[CHOOSE i \in DOMAIN tqRows : tqRows[i].questions.id = q].order_index

\* C11: once the exam is loaded, test.questions is in ascending order of the
\* order_index of test_questions, whatever the order of the rows in the
\* query's answer, and the options of every question are in ascending order
\* of key.
C11_QuestionsOrderedByOrderIndex ==
    test.loaded =>
        /\ \A i, j \in DOMAIN test.questions :
              i < j => OrderIndexOf(test.questions[i].id) <= OrderIndexOf(test.questions[j].id)
        /\ \A i \in DOMAIN test.questions :
              LET opts == test.questions[i].question_options
              IN  \A a, b \in DOMAIN opts : a < b => KeyRank(opts[a].key) <= KeyRank(opts[b].key)

\* The student_test_answers rows that belong to the test_results row of id rid.
AnswerRowsOf(rid) ==
    SelectSeqBy(student_test_answers,
                {r \in Range(student_test_answers) : r.test_result_id = rid})

\* The test_results insert of the running handleSubmit has succeeded.
ResultInserted == \E i \in DOMAIN test_results : test_results[i].id = graded.resultId

\* The student_test_answers insert of the running handleSubmit has succeeded.
AnswersInserted ==
    /\ ResultInserted
    /\ Len(AnswerRowsOf(graded.resultId)) = Len(graded.result.gradedAnswers)

\* C12: handleSubmit writes test_results, then student_test_answers, then
\* test_attempt_logs, and calls onComplete after the three inserts have
\* returned: answer rows are written only after the test_results insert
\* succeeded, the attempt log only after the answers insert succeeded,
\* onComplete is not called by a submission whose first or second insert
\* returned an error, and an error of the attempt-log insert does not keep
\* onComplete from being called.
C12_WritesInOrderThenOnComplete ==
    /\ [](/\ submitPc = "insertAnswers" => ResultInserted
          /\ submitPc = "insertLog" => AnswersInserted
          /\ exitSignal = "onComplete" => AnswersInserted
          /\ \A i \in DOMAIN student_test_answers :
                \E j \in DOMAIN test_results :
                   test_results[j].id = student_test_answers[i].test_result_id)
    /\ [][/\ test_results' # test_results => submitPc = "insertResult"
          /\ student_test_answers' # student_test_answers =>
                submitPc = "insertAnswers" /\ ResultInserted
          /\ test_attempt_logs' # test_attempt_logs =>
                submitPc = "insertLog" /\ AnswersInserted
          /\ exitSignal' # exitSignal /\ exitSignal' = "onComplete" =>
                submitPc = "insertLog" /\ submitPc' = "idle"
          /\ failedSubmits' # failedSubmits =>
                /\ submitPc \in {"insertResult", "insertAnswers"}
                /\ UNCHANGED <<exitSignal, student_test_answers, test_attempt_logs>>
          /\ submitPc = "insertLog" /\ submitPc' # submitPc =>
                exitSignal' = "onComplete"]_vars

\* A submission that failed at the answers insert, then one that went through
\* although its attempt-log insert returned an error.
C12_Witness ==
    /\ exitSignal = "onComplete"
    /\ test_attempt_logs = <<>>
    /\ failedSubmits > 0
    /\ Len(test_results) = 2
    /\ Len(student_test_answers) = 2

\* C13: declining the confirmation dialog writes nothing and changes no
\* state; a submission whose test_results or student_test_answers insert
\* fails leaves the student in the exam room with the answers and the
\* current question unchanged and submitting reset to false; and submitting
\* is true only while a submission is in flight.
C13_FailedSubmissionKeepsExam ==
    /\ [](submitting => submitPc # "idle")
    /\ [][/\ (/\ lastConfirm' # lastConfirm
               /\ lastConfirm' = [by |-> "handleSubmit", ok |-> FALSE]) =>
                UNCHANGED <<backendVars, test, student, examLoading, submitting, answers,
                            currentQIndex, submitPc, graded, exitSignal, layout>>
          /\ failedSubmits' # failedSubmits =>
                /\ UNCHANGED <<answers, currentQIndex, test, layout, exitSignal>>
                /\ ~submitting'
                /\ RoomShown']_vars

\* In the room after a submission that failed at the answers insert and a
\* dialog that was declined, the answers still there.
C13_Witness ==
    /\ failedSubmits > 0
    /\ lastConfirm = [by |-> "handleSubmit", ok |-> FALSE]
    /\ test_results # <<>>
    /\ answers # <<>>
    /\ RoomShown
    /\ ~submitting

\* C14: whatever submissions a student attempts for a release, a retry after
\* a failed student_test_answers insert included, test_results holds at most
\* one row for that release and student.
C14_OneResultRowPerRelease ==
    \A i, j \in DOMAIN test_results :
        (/\ test_results[i].test_release_id = test_results[j].test_release_id
         /\ test_results[i].student_id = test_results[j].student_id) => i = j

\* C18: the layout leaves exam mode with activeExam cleared and on a fixed
\* view: 'results' when the room called onComplete, which it does only for
\* a submission whose test_results and student_test_answers inserts both
\* succeeded, and 'dashboard' when the room called onExit because its data
\* failed to load; short of a navigation by the user, the results view is
\* reached from the exam in no other way.
C18_ExamEndsOnFixedView ==
    /\ [](/\ layout.currentView = "results" => exitSignal = "onComplete" /\ AnswersInserted
          /\ exitSignal = "onComplete" => layout.currentView = "results"
          /\ exitSignal = "onExit" => layout.currentView = "dashboard" /\ ~test.loaded
          /\ exitSignal # "none" => layout.activeExam = NoRelease)
    /\ [][(IsExamMode /\ ~IsExamMode') =>
            /\ layout'.activeExam = NoRelease
            /\ exitSignal = "none"
            /\ \/ /\ exitSignal' = "onComplete"
                  /\ layout'.currentView = "results"
                  /\ submitPc = "insertLog"
               \/ /\ exitSignal' = "onExit"
                  /\ layout'.currentView = "dashboard"
                  /\ loadPc \in {"student", "test"}]_vars

\* The layout on the results view after a submission that went through.
C18_Witness ==
    /\ layout.currentView = "results"
    /\ layout.activeExam = NoRelease
    /\ exitSignal = "onComplete"
    /\ Len(AnswerRowsOf(graded.resultId)) = 2
    /\ test_attempt_logs # <<>>

(***************************************************************************)
(* App (part_002): session and role resolution.                            *)
(*                                                                         *)
(* One user, of id 1, signs in and out.  Each action is one synchronous    *)
(* stretch of the code, from one await (or timer, or event) to the next;   *)
(* the state updates of a stretch are rendered together.  App is the root  *)
(* component: it stays mounted, so `mounted` is true from the mount effect *)
(* on.                                                                     *)
(***************************************************************************)
\* Most occurrences of the environment a behaviour follows: sign-ins on the
\* login screen, logouts, events of the auth client, session check ticks.
MaxAuthEvents == 2

TheUser == 1

\* The value App returns (part_002:396-462).
Screen(a) ==
    IF ~a.isConnected THEN "setup"
    ELSE IF a.authLoading THEN "loading"
    ELSE IF a.isConnected /\ a.session = NullId THEN "login"
    ELSE IF a.session # NullId /\ ~a.authLoading /\ a.userRole # "Student" THEN "denied"
    ELSE IF /\ a.session # NullId /\ ~a.authLoading /\ a.userRole = "Student"
            /\ a.roleCheckAttempted /\ ~a.profileResolvedRef THEN "profileError"
    ELSE "portal"

\* The useState values of a: a render follows when one of them changes, while
\* writing a ref renders nothing.
StateOf(a) == <<a.session, a.userRole, a.authLoading, a.isConnected, a.roleCheckAttempted>>

\* The state updates of one stretch of code, and the render that follows them.
Commit(newApp) ==
    /\ app' = newApp
    /\ screen' = IF StateOf(newApp) = StateOf(app) THEN screen ELSE Screen(newApp)

\* The dependencies of the role re-check effect hold (part_002:385): the
\* effect is run after the render and before anything else is processed.
RoleCheckDue ==
    /\ pc.mount = "mounted"
    /\ app.session # NullId
    /\ ~app.authLoading
    /\ app.userRole = "Student"
    /\ ~app.roleCheckAttempted

\* The answers the auth service can give to getSession().
SessionAnswers ==
    {"none", "throw"} \cup (IF authSvc.user # NullId THEN {"session"} ELSE {})

\* The answers the backend can give to a query of fetchRole: the single()
\* query errs without a profile row, and either query can fail on its own.
RoleAnswers(stage) ==
    {"error", "throw"}
        \cup (IF stage = "single" /\ roleOfUser = "norow" THEN {} ELSE {"data"})

\* fetchRole from the answer of one of its queries on (part_002:127-161):
\* the stage that follows and what the call does to App's state.
FetchRoleAfter(a, stage, answer) ==
    IF answer = "throw" THEN [stage |-> "none", app |-> a]
    ELSE IF answer = "error"
         THEN IF stage = "single" THEN [stage |-> "maybe", app |-> a]
              ELSE [stage |-> "none", app |-> a]
    ELSE IF roleOfUser = "norow" THEN [stage |-> "none", app |-> a]
    ELSE [stage |-> "none",
          app |-> [a EXCEPT !.userRole = IF roleOfUser = "norule" THEN "Student"
                                         ELSE roleOfUser,
                            !.profileResolvedRef = TRUE]]

\* What no step of App touches.
AppFrame ==
    UNCHANGED <<client, roleOfUser, backendVars, examVars, dashVars, viewerVars, layoutVars>>

\* The mount effect has run with a client, and no effect is waiting to run.
Ready == pc.mount = "mounted" /\ client /\ ~RoleCheckDue

LoginIdle(p) == [p EXCEPT !.login = "idle", !.polls = 0, !.currentSession = NullId]

\* No exam room is mounted.
ExamAtRest ==
    /\ test = NotLoaded
    /\ student = NoStudent
    /\ examLoading = TRUE
    /\ submitting = FALSE
    /\ answers = <<>>
    /\ currentQIndex = 0
    /\ loadPc = "student"
    /\ submitPc = "idle"
    /\ graded = NotGraded
    /\ failedSubmits = 0
    /\ exitSignal = "none"
    /\ lastSelected = <<>>
    /\ selectedAtSubmit = <<>>
    /\ changedSelection = FALSE

AppInit ==
    /\ client \in BOOLEAN
    /\ roleOfUser \in BackendRoles
    /\ authSvc \in {[user |-> u, events |-> <<>>, used |-> 0, loginCallsDue |-> 0,
                     callsIgnored |-> 0] : u \in {NullId, TheUser}}
    /\ app = AppState0
    /\ screen = Screen(AppState0)
    /\ pc = Pc0
    /\ roleCalls = NoRoleCalls
    /\ lateRoleCalls = NoLateRoleCalls
    /\ tqRows = <<>>
    /\ test_results = <<>>
    /\ student_test_answers = <<>>
    /\ test_attempt_logs = <<>>
    /\ ExamAtRest /\ DashAtRest /\ ViewerAtRest /\ LayoutAtRest

\* The mount effect up to the call of initAuth and the subscription
\* (part_002:214-222, 254-256), or its else branch (378-381).
MountEffect ==
    /\ pc.mount = "rendered"
    /\ IF client
       THEN /\ Commit([app EXCEPT !.isConnected = TRUE])
            /\ pc' = [pc EXCEPT !.mount = "mounted", !.init = "session"]
       ELSE /\ Commit([app EXCEPT !.authLoading = FALSE, !.isConnected = FALSE])
            /\ pc' = [pc EXCEPT !.mount = "mounted"]
    /\ UNCHANGED <<authSvc, roleCalls, lateRoleCalls>>
    /\ AppFrame

\* initAuth: getSession wins the race (part_002:227-251).
InitAuthSessionReturn ==
    /\ Ready
    /\ pc.init = "session"
    /\ \E answer \in SessionAnswers :
         CASE answer = "session" ->
                /\ Commit([app EXCEPT !.session = authSvc.user])
                /\ pc' = [pc EXCEPT !.init = "role"]
                /\ roleCalls' = [roleCalls EXCEPT !.init = "single"]
           [] answer = "none" ->
                /\ Commit([app EXCEPT !.session = NullId, !.userRole = "Student",
                                      !.authLoading = FALSE])
                /\ pc' = [pc EXCEPT !.init = "done"]
                /\ UNCHANGED roleCalls
           [] answer = "throw" ->
                /\ Commit([app EXCEPT !.authLoading = FALSE])
                /\ pc' = [pc EXCEPT !.init = "done"]
                /\ UNCHANGED roleCalls
    /\ UNCHANGED <<authSvc, lateRoleCalls>>
    /\ AppFrame

\* initAuth: the 5-second timer wins the race (part_002:223-251).
InitAuthTimeout ==
    /\ Ready
    /\ pc.init = "session"
    /\ Commit([app EXCEPT !.session = NullId, !.userRole = "Student", !.authLoading = FALSE])
    /\ pc' = [pc EXCEPT !.init = "done"]
    /\ UNCHANGED <<authSvc, roleCalls, lateRoleCalls>>
    /\ AppFrame

\* A query of a fetchRole call that its caller waits for is answered
\* (part_002:127-161); when that ends the call, the caller goes on: initAuth
\* to its finally (250), handleLoginSuccess and the SIGNED_IN handler past
\* their race (194, 274).
FetchRoleResponds ==
    /\ Ready
    /\ \E c \in {d \in Callers : roleCalls[d] # "none"} :
         \E answer \in RoleAnswers(roleCalls[c]) :
           LET after == FetchRoleAfter(app, roleCalls[c], answer)
               ended == after.stage = "none"
           IN  /\ roleCalls' = [roleCalls EXCEPT ![c] = after.stage]
               /\ IF ended /\ c = "init"
                  THEN /\ Commit([after.app EXCEPT !.authLoading = FALSE])
                       /\ pc' = [pc EXCEPT !.init = "done"]
                  ELSE IF ended /\ c = "login"
                  THEN /\ Commit(after.app)
                       /\ pc' = [pc EXCEPT !.login = "prep"]
                  ELSE IF ended /\ c = "signin"
                  THEN /\ Commit(after.app)
                       /\ pc' = [pc EXCEPT !.signin = "sleep200"]
                  ELSE /\ Commit(after.app)
                       /\ UNCHANGED pc
    /\ UNCHANGED <<authSvc, lateRoleCalls>>
    /\ AppFrame

\* A fetchRole call whose caller has stopped waiting comes to its end
\* (part_002:127-161): nobody awaits it, so the model takes its queries in
\* one step.  It sets the role when one of its queries brought the profile.
LateFetchRoleResponds ==
    /\ Ready
    /\ lateRoleCalls > 0
    /\ lateRoleCalls' = lateRoleCalls - 1
    /\ \E answer \in RoleAnswers("maybe") :
         Commit(FetchRoleAfter(app, "maybe", answer).app)
    /\ UNCHANGED <<authSvc, pc, roleCalls>>
    /\ AppFrame

\* The role re-check effect (part_002:384-394): checkRoleAgain is not awaited.
RoleCheckEffect ==
    /\ RoleCheckDue
    /\ Commit([app EXCEPT !.roleCheckAttempted = TRUE])
    /\ roleCalls' = [roleCalls EXCEPT !.recheck = "single"]
    /\ UNCHANGED <<authSvc, pc, lateRoleCalls>>
    /\ AppFrame

\* The user signs in on the login screen (part_002:422-424): the auth service
\* holds a session, its client emits SIGNED_IN, and LoginScreen is to call
\* onLoginSuccess.
LoginScreenSubmit ==
    /\ Ready
    /\ screen = "login"
    /\ authSvc.used < MaxAuthEvents
    /\ authSvc' = [authSvc EXCEPT !.user = TheUser,
                                  !.events = Append(@, "SIGNED_IN"),
                                  !.used = @ + 1,
                                  !.loginCallsDue = @ + 1]
    /\ UNCHANGED <<app, screen, pc, roleCalls, lateRoleCalls>>
    /\ AppFrame

\* handleLoginSuccess up to its first await (part_002:164-173, 208-211).
HandleLoginSuccess ==
    /\ pc.mount = "mounted"
    /\ ~RoleCheckDue
    /\ authSvc.loginCallsDue > 0
    /\ authSvc' = [authSvc EXCEPT !.loginCallsDue = @ - 1,
                                  !.callsIgnored = IF app.loginProcessingRef THEN 1 ELSE @]
    /\ IF app.loginProcessingRef
       THEN UNCHANGED <<app, screen, pc>>
       ELSE IF client
       THEN /\ Commit([app EXCEPT !.loginProcessingRef = TRUE, !.authLoading = TRUE])
            /\ pc' = [pc EXCEPT !.login = "sleep500"]
       ELSE /\ Commit([app EXCEPT !.authLoading = FALSE, !.loginProcessingRef = FALSE])
            /\ UNCHANGED pc
    /\ UNCHANGED <<roleCalls, lateRoleCalls>>
    /\ AppFrame

\* The 500 ms sleep ends and the first getSession is sent (part_002:173-177).
LoginSleepDone ==
    /\ Ready
    /\ pc.login = "sleep500"
    /\ pc' = [pc EXCEPT !.login = "poll", !.polls = 1, !.currentSession = NullId]
    /\ UNCHANGED <<authSvc, app, screen, roleCalls, lateRoleCalls>>
    /\ AppFrame

\* A getSession of the loop answers (part_002:177-189, 204-207): with a user
\* the loop is left, the session set and fetchRole called; an exception goes
\* to the catch block.
LoginPollReturn ==
    /\ Ready
    /\ pc.login = "poll"
    /\ \E answer \in SessionAnswers :
         CASE answer = "session" ->
                /\ Commit([app EXCEPT !.session = authSvc.user])
                /\ pc' = [pc EXCEPT !.login = "race", !.currentSession = authSvc.user]
                /\ roleCalls' = [roleCalls EXCEPT !.login = "single"]
           [] answer = "none" ->
                /\ pc' = [pc EXCEPT !.login = "pollSleep"]
                /\ UNCHANGED <<app, screen, roleCalls>>
           [] answer = "throw" ->
                /\ Commit([app EXCEPT !.authLoading = FALSE, !.loginProcessingRef = FALSE])
                /\ pc' = LoginIdle(pc)
                /\ UNCHANGED roleCalls
    /\ UNCHANGED <<authSvc, lateRoleCalls>>
    /\ AppFrame

\* LoginPollSleepDone with the ref left set when the loop is over.
LoginPollSleepDoneKeepsRef ==
    /\ Ready
    /\ pc.login = "pollSleep"
    /\ IF pc.polls < 3
       THEN /\ pc' = [pc EXCEPT !.login = "poll", !.polls = @ + 1]
            /\ UNCHANGED <<app, screen>>
       ELSE /\ Commit([app EXCEPT !.authLoading = FALSE])
            /\ pc' = LoginIdle(pc)
    /\ UNCHANGED <<authSvc, roleCalls, lateRoleCalls>>
    /\ AppFrame

\* The 300 ms sleep of the loop ends (part_002:176, 182, 200-203): the next
\* getSession is sent, or the loop is over without a session.
LoginPollSleepDone ==
    /\ Ready
    /\ pc.login = "pollSleep"
    /\ IF pc.polls < 3
       THEN /\ pc' = [pc EXCEPT !.login = "poll", !.polls = @ + 1]
            /\ UNCHANGED <<app, screen>>
       ELSE /\ Commit([app EXCEPT !.authLoading = FALSE, !.loginProcessingRef = FALSE])
            /\ pc' = LoginIdle(pc)
    /\ UNCHANGED <<authSvc, roleCalls, lateRoleCalls>>
    /\ AppFrame

\* The 5-second timer wins the race of handleLoginSuccess (part_002:190-196):
\* the fetchRole call goes on on its own.
LoginRaceTimeout ==
    /\ Ready
    /\ pc.login = "race"
    /\ roleCalls.login # "none"
    /\ lateRoleCalls' = lateRoleCalls + 1
    /\ roleCalls' = [roleCalls EXCEPT !.login = "none"]
    /\ pc' = [pc EXCEPT !.login = "prep"]
    /\ UNCHANGED <<authSvc, app, screen>>
    /\ AppFrame

\* The last sleep of handleLoginSuccess ends (part_002:197-199).
LoginPrepDone ==
    /\ Ready
    /\ pc.login = "prep"
    /\ Commit([app EXCEPT !.authLoading = FALSE, !.loginProcessingRef = FALSE])
    /\ pc' = LoginIdle(pc)
    /\ UNCHANGED <<authSvc, roleCalls, lateRoleCalls>>
    /\ AppFrame

\* The event the subscription's callback is called with next.
NextEvent == IF authSvc.events = <<>> THEN "" ELSE Head(authSvc.events)

\* onAuthStateChange, SIGNED_IN, up to its await (part_002:257-274).  The event
\* carries the session of the user who signed in.
OnSignedIn ==
    /\ Ready
    /\ NextEvent = "SIGNED_IN"
    /\ authSvc' = [authSvc EXCEPT !.events = Tail(@)]
    /\ IF app.signInProcessingRef
       THEN UNCHANGED <<app, screen, pc, roleCalls>>
       ELSE /\ Commit([app EXCEPT !.signInProcessingRef = TRUE, !.session = TheUser,
                                  !.authLoading = TRUE])
            /\ pc' = [pc EXCEPT !.signin = "race"]
            /\ roleCalls' = [roleCalls EXCEPT !.signin = "single"]
    /\ UNCHANGED lateRoleCalls
    /\ AppFrame

\* The 5-second timer wins the race of the SIGNED_IN handler (part_002:270-279).
SigninRaceTimeout ==
    /\ Ready
    /\ pc.signin = "race"
    /\ roleCalls.signin # "none"
    /\ lateRoleCalls' = lateRoleCalls + 1
    /\ roleCalls' = [roleCalls EXCEPT !.signin = "none"]
    /\ pc' = [pc EXCEPT !.signin = "sleep200"]
    /\ UNCHANGED <<authSvc, app, screen>>
    /\ AppFrame

\* The 200 ms sleep ends and the 300 ms timer is set (part_002:279-287).
SigninSleepDone ==
    /\ Ready
    /\ pc.signin = "sleep200"
    /\ pc' = [pc EXCEPT !.signin = "timer300"]
    /\ UNCHANGED <<authSvc, app, screen, roleCalls, lateRoleCalls>>
    /\ AppFrame

\* SigninTimerFires without the release of signInProcessingRef.
SigninTimerFiresKeepsRef ==
    /\ Ready
    /\ pc.signin = "timer300"
    /\ Commit([app EXCEPT !.authLoading = FALSE])
    /\ pc' = [pc EXCEPT !.signin = "idle"]
    /\ UNCHANGED <<authSvc, roleCalls, lateRoleCalls>>
    /\ AppFrame

\* The 300 ms timer fires (part_002:282-287).
SigninTimerFires ==
    /\ Ready
    /\ pc.signin = "timer300"
    /\ Commit([app EXCEPT !.authLoading = FALSE, !.signInProcessingRef = FALSE])
    /\ pc' = [pc EXCEPT !.signin = "idle"]
    /\ UNCHANGED <<authSvc, roleCalls, lateRoleCalls>>
    /\ AppFrame

\* OnSignedOut without setUserRole('Student').
OnSignedOutKeepsRole ==
    /\ Ready
    /\ NextEvent = "SIGNED_OUT"
    /\ authSvc' = [authSvc EXCEPT !.events = Tail(@)]
    /\ Commit([app EXCEPT !.profileResolvedRef = FALSE, !.session = NullId,
                          !.authLoading = FALSE])
    /\ UNCHANGED <<pc, roleCalls, lateRoleCalls>>
    /\ AppFrame

\* onAuthStateChange, SIGNED_OUT (part_002:294-300).
OnSignedOut ==
    /\ Ready
    /\ NextEvent = "SIGNED_OUT"
    /\ authSvc' = [authSvc EXCEPT !.events = Tail(@)]
    /\ Commit([app EXCEPT !.profileResolvedRef = FALSE, !.session = NullId,
                          !.userRole = "Student", !.authLoading = FALSE])
    /\ UNCHANGED <<pc, roleCalls, lateRoleCalls>>
    /\ AppFrame

\* onAuthStateChange, TOKEN_REFRESHED (part_002:305-311).
OnTokenRefreshed ==
    /\ Ready
    /\ NextEvent = "TOKEN_REFRESHED"
    /\ authSvc' = [authSvc EXCEPT !.events = Tail(@)]
    /\ UNCHANGED <<app, screen, pc, roleCalls, lateRoleCalls>>
    /\ AppFrame

\* onAuthStateChange, PASSWORD_RECOVERY, up to its await (part_002:313-315).
OnPasswordRecovery ==
    /\ Ready
    /\ NextEvent = "PASSWORD_RECOVERY"
    /\ authSvc' = [authSvc EXCEPT !.events = Tail(@)]
    /\ pc' = [pc EXCEPT !.recovery = "session"]
    /\ UNCHANGED <<app, screen, roleCalls, lateRoleCalls>>
    /\ AppFrame

\* The getSession of the PASSWORD_RECOVERY handler answers (part_002:315-322):
\* with a session signOut() is called, which ends the session at the auth
\* service and makes its client emit SIGNED_OUT.
PasswordRecoveryReturn ==
    /\ Ready
    /\ pc.recovery = "session"
    /\ \E answer \in SessionAnswers :
         CASE answer = "session" ->
                /\ authSvc' = [authSvc EXCEPT !.user = NullId,
                                              !.events = Append(@, "SIGNED_OUT")]
                /\ UNCHANGED <<app, screen>>
           [] answer = "none" ->
                /\ Commit([app EXCEPT !.session = NullId, !.userRole = "Student",
                                      !.authLoading = FALSE])
                /\ UNCHANGED authSvc
           [] answer = "throw" ->
                UNCHANGED <<authSvc, app, screen>>
    /\ pc' = [pc EXCEPT !.recovery = "idle"]
    /\ UNCHANGED <<roleCalls, lateRoleCalls>>
    /\ AppFrame

\* What the session check does when it finds the session gone (part_002:345-350, 358-363).
SessionGone ==
    Commit([app EXCEPT !.profileResolvedRef = FALSE, !.session = NullId,
                       !.userRole = "Student", !.authLoading = FALSE])

\* The 30-second interval fires and its first getSession is sent (part_002:327-330).
SessionCheckTick ==
    /\ Ready
    /\ pc.check = "idle"
    /\ authSvc.used < MaxAuthEvents
    /\ authSvc' = [authSvc EXCEPT !.used = @ + 1]
    /\ pc' = [pc EXCEPT !.check = "first"]
    /\ UNCHANGED <<app, screen, roleCalls, lateRoleCalls>>
    /\ AppFrame

\* The first getSession of the session check answers (part_002:330-336).
SessionCheckFirstReturn ==
    /\ Ready
    /\ pc.check = "first"
    /\ \E answer \in SessionAnswers :
         pc' = [pc EXCEPT !.check = IF answer = "session" THEN "second" ELSE "idle"]
    /\ UNCHANGED <<authSvc, app, screen, roleCalls, lateRoleCalls>>
    /\ AppFrame

\* The second getSession of the session check answers (part_002:336-370):
\* "throw" is an answer with an error or an exception, "none" one without
\* error and without session; expired is timeLeft < -60.
SessionCheckSecondReturn ==
    /\ Ready
    /\ pc.check = "second"
    /\ \E answer \in SessionAnswers, expired \in BOOLEAN :
         IF answer = "none" \/ (answer = "session" /\ expired)
         THEN SessionGone
         ELSE UNCHANGED <<app, screen>>
    /\ pc' = [pc EXCEPT !.check = "idle"]
    /\ UNCHANGED <<authSvc, roleCalls, lateRoleCalls>>
    /\ AppFrame

\* The auth client emits an event for the signed-in user: SIGNED_IN again
\* (another tab, the tab regaining focus), a token refresh, a password
\* recovery link, or the end of the session.
AuthClientEmits ==
    /\ Ready
    /\ authSvc.used < MaxAuthEvents
    /\ authSvc.user # NullId
    /\ \E ev \in {"SIGNED_IN", "TOKEN_REFRESHED", "PASSWORD_RECOVERY", "SIGNED_OUT"} :
         authSvc' = [authSvc EXCEPT !.user = IF ev = "SIGNED_OUT" THEN NullId ELSE @,
                                    !.events = Append(@, ev),
                                    !.used = @ + 1]
    /\ UNCHANGED <<app, screen, pc, roleCalls, lateRoleCalls>>
    /\ AppFrame

\* handleLogout of the portal (part_001:50-52): signOut() ends the session at
\* the auth service, whose client emits SIGNED_OUT.
HandleLogout ==
    /\ Ready
    /\ screen = "portal"
    /\ authSvc.used < MaxAuthEvents
    /\ authSvc' = [authSvc EXCEPT !.user = NullId,
                                  !.events = Append(@, "SIGNED_OUT"),
                                  !.used = @ + 1]
    /\ UNCHANGED <<app, screen, pc, roleCalls, lateRoleCalls>>
    /\ AppFrame

AppNext ==
    \/ MountEffect
    \/ InitAuthSessionReturn
    \/ InitAuthTimeout
    \/ FetchRoleResponds
    \/ LateFetchRoleResponds
    \/ RoleCheckEffect
    \/ LoginScreenSubmit
    \/ HandleLoginSuccess
    \/ LoginSleepDone
    \/ LoginPollReturn
    \/ LoginPollSleepDone
    \/ LoginRaceTimeout
    \/ LoginPrepDone
    \/ OnSignedIn
    \/ SigninRaceTimeout
    \/ SigninSleepDone
    \/ SigninTimerFires
    \/ OnSignedOut
    \/ OnTokenRefreshed
    \/ OnPasswordRecovery
    \/ PasswordRecoveryReturn
    \/ SessionCheckTick
    \/ SessionCheckFirstReturn
    \/ SessionCheckSecondReturn
    \/ AuthClientEmits
    \/ HandleLogout

\* App from its first render on.
AppSpec == AppInit /\ [][AppNext]_vars

\* What the browser and React guarantee: an effect is run, a timer that is
\* set fires, a callback that is due is called.  The auth service answers the
\* getSession calls of handleLoginSuccess; nothing is assumed of the answers
\* to the role queries, nor of the other calls of the external service.
AppFairness ==
    /\ WF_vars(MountEffect)
    /\ WF_vars(InitAuthTimeout)
    /\ WF_vars(RoleCheckEffect)
    /\ WF_vars(HandleLoginSuccess)
    /\ WF_vars(LoginSleepDone)
    /\ WF_vars(LoginPollReturn)
    /\ WF_vars(LoginPollSleepDone)
    /\ WF_vars(LoginRaceTimeout)
    /\ WF_vars(LoginPrepDone)
    /\ WF_vars(OnSignedIn)
    /\ WF_vars(SigninRaceTimeout)
    /\ WF_vars(SigninSleepDone)
    /\ WF_vars(SigninTimerFires)
    /\ WF_vars(OnSignedOut)
    /\ WF_vars(OnTokenRefreshed)
    /\ WF_vars(OnPasswordRecovery)

AppFairSpec == AppSpec /\ AppFairness

(***************************************************************************)
(* Properties of App.                                                      *)
(***************************************************************************)
\* C1: whenever App renders the student portal, the role the backend holds
\* for the signed-in user is 'Student'; a user with any other role is never
\* shown the portal, also not while the role query is pending, timed out or
\* failed.
C1_PortalOnlyForStudents ==
    screen = "portal" => roleOfUser = "Student"

\* How far handleLoginSuccess has come: every step of it goes up, or ends it.
LoginRank(p) ==
    CASE p.login = "idle"      -> 0
      [] p.login = "sleep500"  -> 1
      [] p.login = "poll"      -> 2 * p.polls
      [] p.login = "pollSleep" -> 2 * p.polls + 1
      [] p.login = "race"      -> 8
      [] p.login = "prep"      -> 9

\* The steps of handleLoginSuccess that a timer of its own brings about.
LoginTimerStep == LoginSleepDone \/ LoginPollSleepDone \/ LoginRaceTimeout \/ LoginPrepDone

\* C6: handleLoginSuccess sends at most 3 getSession calls and leaves the loop
\* at the first answer with a user; while it waits for the role query the
\* 5-second timer is set, and everywhere else but at a getSession call it
\* waits for a timer of its own; each of its steps brings it further, and the
\* step that ends it, on any path, leaves authLoading = false and
\* loginProcessingRef released; the ref is held exactly while it runs; a call
\* made while the ref is set changes nothing.
C6_LoginSuccessBoundedAndReleases ==
    /\ [](/\ pc.polls <= 3
          /\ app.loginProcessingRef <=> pc.login # "idle"
          /\ pc.login = "pollSleep" => pc.currentSession = NullId
          /\ pc.login \in {"race", "prep"} => pc.currentSession # NullId
          /\ (pc.login = "race" /\ ~RoleCheckDue) => ENABLED LoginRaceTimeout
          /\ (pc.login \notin {"idle", "poll"} /\ ~RoleCheckDue) => ENABLED LoginTimerStep)
    /\ [][(pc'.login # pc.login \/ pc'.polls # pc.polls) =>
            \/ LoginRank(pc') > LoginRank(pc)
            \/ /\ pc.login # "idle"
               /\ pc'.login = "idle"
               /\ ~app'.authLoading
               /\ ~app'.loginProcessingRef]_vars
    /\ [][(authSvc'.loginCallsDue < authSvc.loginCallsDue /\ app.loginProcessingRef) =>
            UNCHANGED <<app, screen, pc, roleCalls, lateRoleCalls>>]_vars

\* A second call was returned at the guard, and the first one found the user
\* with its third getSession and lost the race against the timer.
C6_Witness ==
    /\ authSvc.callsIgnored > 0
    /\ pc.login = "prep"
    /\ pc.polls = 3
    /\ lateRoleCalls > 0

\* C7: with a client, every wait of initAuth on the external service is
\* bounded by a timeout: authLoading eventually becomes false, whether or not
\* getSession and the role query ever answer; and when initAuth ends without a
\* session (the timeout won, or getSession brought none) the role is 'Student'
\* and the login screen is shown.
C7_StartupAlwaysEnds ==
    /\ client => <>(~app.authLoading)
    /\ [][(pc.init = "session" /\ pc'.init = "done" /\ app'.session = NullId
             /\ app' # [app EXCEPT !.authLoading = FALSE]) =>
            (app'.userRole = "Student" /\ screen' = "login")]_vars

\* The subscription's callback is called with the event ev.
EventHandled(ev) ==
    /\ NextEvent = ev
    /\ Len(authSvc'.events) < Len(authSvc.events)

\* C19: the step in which the callback of onAuthStateChange gets SIGNED_OUT
\* leaves session = null, userRole = 'Student', authLoading = false and
\* profileResolvedRef = false, whatever else of App is in flight, and the
\* screen rendered after it is the login screen.
C19_SignedOutResetsToLogin ==
    [][EventHandled("SIGNED_OUT") =>
         /\ app'.session = NullId
         /\ app'.userRole = "Student"
         /\ ~app'.authLoading
         /\ ~app'.profileResolvedRef
         /\ screen' = "login"]_vars

\* SIGNED_OUT was handled while the SIGNED_IN handler waited for the role of
\* a user who is not a student: the session ended at the auth service, no
\* event is left to handle, and the login screen is shown.
C19_Witness ==
    /\ authSvc.user = NullId
    /\ authSvc.events = <<>>
    /\ pc.signin = "race"
    /\ roleOfUser \in OtherRoles
    /\ app.session = NullId
    /\ app.userRole = "Student"
    /\ screen = "login"

\* How far the SIGNED_IN handler has come.
SigninRank(p) ==
    CASE p.signin = "idle"     -> 0
      [] p.signin = "race"     -> 1
      [] p.signin = "sleep200" -> 2
      [] p.signin = "timer300" -> 3

\* The steps of the SIGNED_IN handler that a timer of its own brings about.
SigninTimerStep == SigninRaceTimeout \/ SigninSleepDone \/ SigninTimerFires

\* C20: once the SIGNED_IN handler has accepted an event it holds
\* signInProcessingRef exactly until it ends; at each of its waits a timer
\* of its own is set, the 5-second timer while it waits for the role query,
\* so that no answer of the backend is needed for it to go on (the role
\* re-check effect, which React runs first, runs once at most); each of its
\* steps brings it further, and the step that ends it leaves authLoading =
\* false and the ref released.
C20_SignInHandlerEndsAndReleases ==
    /\ [](/\ app.signInProcessingRef <=> pc.signin # "idle"
          /\ pc.signin = "race" <=> roleCalls.signin # "none"
          /\ (pc.signin = "race" /\ ~RoleCheckDue) => ENABLED SigninRaceTimeout
          /\ (pc.signin # "idle" /\ ~RoleCheckDue) => ENABLED SigninTimerStep
          /\ (pc.signin # "idle" /\ RoleCheckDue) => ENABLED RoleCheckEffect)
    /\ [][/\ app.roleCheckAttempted => app'.roleCheckAttempted
          /\ pc'.signin # pc.signin =>
               \/ SigninRank(pc') > SigninRank(pc)
               \/ /\ pc.signin = "timer300"
                  /\ pc'.signin = "idle"
                  /\ ~app'.authLoading
                  /\ ~app'.signInProcessingRef]_vars

\* The handler lost the race against the 5-second timer (the only call of
\* fetchRole made so far is its own and has not answered) and waits for its
\* last timer with the ref held and the loading screen shown.
C20_Witness ==
    /\ pc.signin = "timer300"
    /\ lateRoleCalls = 1
    /\ authSvc.used = 1
    /\ authSvc.loginCallsDue = 1
    /\ app.signInProcessingRef
    /\ app.authLoading
    /\ screen = "loading"

\* The liveness reading of C20 under the fairness of timers and effects.
C20_SignInEventuallyReleases ==
    /\ pc.signin # "idle" ~> pc.signin = "idle"
    /\ app.signInProcessingRef ~> (~app.signInProcessingRef /\ ~app.authLoading)

\* C21: in every reachable state of App, whatever the order of auth events,
\* session checks and answers of role queries in flight, a null session
\* goes with userRole = 'Student'.
C21_NoSessionMeansStudent ==
    app.session = NullId => app.userRole = "Student"

(***************************************************************************)
(* StudentDashboard (part_000): fetchData and the status lists.            *)
(*                                                                         *)
(* Times are whole numbers.  The component is mounted in the portal, with  *)
(* a client and a session.  A render calls getTestStatus once per release  *)
(* and list, and each call reads the clock, which goes on meanwhile.       *)
(***************************************************************************)
\* The clock's last value.
MaxClock == 3

\* The test_releases tables the behaviours start from.
ReleaseTables ==
    {<<>>,
     <<Release(1, 1, 2)>>,
     <<Release(1, 2, 2)>>,
     <<Release(1, 1, 2), Release(2, 2, 3)>>,
     <<Release(1, 0, 1), Release(2, 1, 1)>>}

\* One test_results row per release id of ids.
ResultRowsFor(ids) ==
    LET keys == [p \in 1..Cardinality(ids) |->
                    CHOOSE k \in ids : Cardinality({j \in ids : j < k}) = p - 1]
    IN  [p \in DOMAIN keys |->
            [id |-> p, test_id |-> Props.testId, student_id |-> Props.studentId,
             test_release_id |-> keys[p], score |-> 0, correct_count |-> 0,
             error_count |-> 0]]

\* .order('start_time', { ascending: false }) (part_000:72).
OrderByStartDesc(rows) ==
    StableSortByRank(rows, [i \in DOMAIN rows |-> 0 - rows[i].start_time])

\* getTestStatus (part_000:108-120), now being what new Date() returned.
GetTestStatus(r, now, results) ==
    LET resultExists == \E i \in DOMAIN results : results[i].test_release_id = r.id
    IN  IF resultExists THEN "completed"
        ELSE IF now < r.start_time THEN "upcoming"
        ELSE IF now > r.end_time THEN "expired"
        ELSE "active"

\* The filters of a render, in the order of the code (part_000:163-166).
FilterList(f) ==
    CASE f = "active"    -> "activeTests"
      [] f = "upcoming"  -> "upcomingTests"
      [] f = "completed" -> "completedTests"
      [] f = "expired"   -> "expiredTests"
FilterAfter(f) ==
    CASE f = "active"    -> "upcoming"
      [] f = "upcoming"  -> "completed"
      [] f = "completed" -> "expired"
      [] f = "expired"   -> "done"

\* What no step of the dashboard touches.
DashFrame == UNCHANGED <<backendVars, examVars, appVars, viewerVars, layoutVars>>

DashInit ==
    /\ \E rel \in ReleaseTables, au \in BOOLEAN, st \in BOOLEAN :
         /\ school = [School0 EXCEPT !.app_user = au, !.student.exists = st,
                                     !.test_releases = rel]
         /\ test_results \in {ResultRowsFor(ids) : ids \in SUBSET {rel[i].id : i \in DOMAIN rel}}
    /\ tqRows = <<>>
    /\ student_test_answers = <<>>
    /\ test_attempt_logs = <<>>
    /\ ViewerIdle
    /\ ExamAtRest
    /\ AppAtRest
    /\ DashAtRest
    /\ LayoutAtRest

\* The effect sets the 100 ms timer (part_000:95-101).
DashEffect ==
    /\ DashMounted
    /\ dashPc.fetch = "idle"
    /\ dashPc' = [dashPc EXCEPT !.fetch = "timer"]
    /\ UNCHANGED <<dash, clock, lists>>
    /\ DashFrame

\* The timer fires: fetchData up to its first await (part_000:21-40).
DashTimerFires ==
    /\ dashPc.fetch = "timer"
    /\ dash' = [dash EXCEPT !.loading = TRUE]
    /\ dashPc' = [dashPc EXCEPT !.fetch = "appUser"]
    /\ UNCHANGED <<clock, lists>>
    /\ DashFrame

\* The app_users query answers (part_000:36-57).
DashAppUserReturn ==
    /\ dashPc.fetch = "appUser"
    /\ \E error \in BOOLEAN :
         IF error \/ ~school.app_user
         THEN /\ dash' = [dash EXCEPT !.loading = FALSE]
              /\ dashPc' = [dashPc EXCEPT !.fetch = "done"]
         ELSE /\ dashPc' = [dashPc EXCEPT !.fetch = "student"]
              /\ UNCHANGED dash
    /\ UNCHANGED <<clock, lists>>
    /\ DashFrame

\* The students query answers (part_000:52-72, 82-92).
DashStudentReturn ==
    /\ dashPc.fetch = "student"
    /\ \E error \in BOOLEAN :
         IF error
         THEN /\ dash' = [dash EXCEPT !.loading = FALSE]
              /\ dashPc' = [dashPc EXCEPT !.fetch = "done"]
         ELSE IF school.student.exists
         THEN /\ dash' = [dash EXCEPT !.studentName = "Ana"]
              /\ dashPc' = [dashPc EXCEPT !.fetch = "releases"]
         ELSE /\ dash' = [dash EXCEPT !.releases = <<>>, !.results = <<>>,
                                      !.studentName = "Usuario", !.loading = FALSE]
              /\ dashPc' = [dashPc EXCEPT !.fetch = "done"]
    /\ UNCHANGED <<clock, lists>>
    /\ DashFrame

\* The test_releases query answers (part_000:68-78).
DashReleasesReturn ==
    /\ dashPc.fetch = "releases"
    /\ \E error \in BOOLEAN :
         dashPc' = [dashPc EXCEPT !.fetch = "results",
                                  !.relData = IF error THEN <<>>
                                              ELSE OrderByStartDesc(school.test_releases)]
    /\ UNCHANGED <<dash, clock, lists>>
    /\ DashFrame

\* The test_results query answers (part_000:75-92).
DashResultsReturn ==
    /\ dashPc.fetch = "results"
    /\ \E error \in BOOLEAN :
         dash' = [dash EXCEPT !.releases = dashPc.relData,
                              !.results = IF error THEN <<>> ELSE test_results,
                              !.loading = FALSE]
    /\ dashPc' = [dashPc EXCEPT !.fetch = "done", !.relData = <<>>]
    /\ UNCHANGED <<clock, lists>>
    /\ DashFrame

\* A render gets as far as the lists (part_000:138-163).
DashRenderStarts ==
    /\ ~dash.loading
    /\ dash.studentName \notin {"", "Usuario"}
    /\ dashPc.render \in {"none", "done"}
    /\ dashPc' = [dashPc EXCEPT !.render = "active", !.at = 1, !.building = NoLists]
    /\ UNCHANGED <<dash, clock, lists>>
    /\ DashFrame

\* The next step of the four filters (part_000:163-166): the callback of the
\* filter is called for the next release, or the filter is over; after the
\* last filter the render is returned.
DashFilterStep ==
    /\ dashPc.render \in {"active", "upcoming", "completed", "expired"}
    /\ IF dashPc.at <= Len(dash.releases)
       THEN LET r      == dash.releases[dashPc.at]
                status == GetTestStatus(r, clock, dash.results)
                name   == FilterList(dashPc.render)
            IN  /\ dashPc' = [dashPc EXCEPT
                       !.at = @ + 1,
                       !.building[name] = IF status = dashPc.render THEN Append(@, r) ELSE @,
                       !.lastCall = [id |-> r.id, start_time |-> r.start_time,
                                     end_time |-> r.end_time, now |-> clock,
                                     status |-> status]]
                /\ UNCHANGED lists
       ELSE LET sorted == [dashPc.building EXCEPT !.upcomingTests =
                              StableSortByRank(@, [i \in DOMAIN @ |-> @[i].start_time])]
            IN  /\ dashPc' = [dashPc EXCEPT
                       !.render = FilterAfter(@), !.at = 1,
                       !.building = IF dashPc.render = "upcoming" THEN sorted ELSE @]
                /\ lists' = IF dashPc.render = "expired" THEN dashPc.building ELSE lists
    /\ UNCHANGED <<dash, clock>>
    /\ DashFrame

\* Time passes.
ClockTick ==
    /\ clock < MaxClock
    /\ clock' = clock + 1
    /\ UNCHANGED <<dash, dashPc, lists>>
    /\ DashFrame

DashNext ==
    \/ DashEffect
    \/ DashTimerFires
    \/ DashAppUserReturn
    \/ DashStudentReturn
    \/ DashReleasesReturn
    \/ DashResultsReturn
    \/ DashRenderStarts
    \/ DashFilterStep
    \/ ClockTick

\* The dashboard from its first render on.
DashSpec == DashInit /\ [][DashNext]_vars

(***************************************************************************)
(* Properties of the dashboard.                                            *)
(***************************************************************************)
ListNames == {"activeTests", "upcomingTests", "completedTests", "expiredTests"}

\* The lists of the last render that hold the release of id k.
ListsHolding(k) ==
    {name \in ListNames : \E i \in DOMAIN lists[name] : lists[name][i].id = k}

\* C5: every call of getTestStatus gives 'completed' when the release has a
\* test_results row, else 'upcoming' when now < start_time, else 'expired'
\* when now > end_time, else 'active'; and the four lists of a render are
\* pairwise disjoint and together hold every fetched release.
C5_OneStatusPerRelease ==
    /\ dashPc.lastCall.id # NullId =>
         LET c == dashPc.lastCall
             hasResult == \E i \in DOMAIN dash.results : dash.results[i].test_release_id = c.id
         IN  /\ c.status = "completed" <=> hasResult
             /\ c.status = "upcoming" <=> (~hasResult /\ c.now < c.start_time)
             /\ c.status = "expired" <=>
                    (~hasResult /\ ~(c.now < c.start_time) /\ c.now > c.end_time)
             /\ c.status = "active" <=>
                    (~hasResult /\ c.start_time <= c.now /\ c.now <= c.end_time)
    /\ dashPc.render = "done" =>
         \A i \in DOMAIN dash.releases :
            Cardinality(ListsHolding(dash.releases[i].id)) = 1

(***************************************************************************)
(* StudentLayout (part_001): the handlers of the component, called in any  *)
(* order and with any argument.                                            *)
(***************************************************************************)
\* The releases startExam is called with.
ExamReleases == UNION {Range(rel) : rel \in ReleaseTables}

\* What no handler of the layout touches.
LayoutFrame == UNCHANGED <<backendVars, examVars, appVars, dashVars, viewerVars>>

\* App as it renders the portal for a signed-in student (part_002:422-462);
\* session and isConnected are the props of the layout (part_001:14-17).
AppShowsPortal ==
    /\ client = TRUE
    /\ roleOfUser = "Student"
    /\ authSvc = [user |-> TheUser, events |-> <<>>, used |-> 0, loginCallsDue |-> 0,
                  callsIgnored |-> 0]
    /\ app \in {a \in {[AppState0 EXCEPT !.session = TheUser, !.authLoading = FALSE,
                                         !.isConnected = TRUE,
                                         !.roleCheckAttempted = attempted,
                                         !.profileResolvedRef = resolved] :
                          attempted \in BOOLEAN, resolved \in BOOLEAN} :
                 Screen(a) = "portal"}
    /\ screen = "portal"
    /\ pc = [Pc0 EXCEPT !.mount = "mounted"]
    /\ roleCalls = NoRoleCalls
    /\ lateRoleCalls = NoLateRoleCalls

LayoutInit ==
    /\ tqRows = <<>>
    /\ test_results = <<>>
    /\ student_test_answers = <<>>
    /\ test_attempt_logs = <<>>
    /\ ExamAtRest
    /\ AppShowsPortal
    /\ DashAtRest
    /\ ViewerAtRest
    /\ LayoutAtRest

\* startExam(release) (part_001:38-43).
StartExamCalled(release, confirmed) ==
    /\ layout' = StartExamWith(layout, release, confirmed)
    /\ lastConfirm' = [by |-> "startExam", ok |-> confirmed]
    /\ LayoutFrame

\* handleNavigate(view) (part_001:26-36).
HandleNavigateCalled(view, confirmed) ==
    /\ layout' = HandleNavigateTo(layout, view, confirmed)
    /\ lastConfirm' = IF layout.currentView = "exam"
                      THEN [by |-> "handleNavigate", ok |-> confirmed]
                      ELSE lastConfirm
    /\ LayoutFrame

\* handleExamComplete() (part_001:45-48).
HandleExamCompleteCalled ==
    /\ layout' = HandleExamComplete(layout)
    /\ UNCHANGED lastConfirm
    /\ LayoutFrame

\* The onExit prop of the room is called (part_001:65).
OnExitCalled ==
    /\ layout' = OnExit(layout)
    /\ UNCHANGED lastConfirm
    /\ LayoutFrame

\* The menu button (part_001:169) and the overlay (part_001:78), both of the
\* render outside exam mode.
OpenSidebar ==
    /\ ~IsExamMode
    /\ layout' = [layout EXCEPT !.isSidebarOpen = TRUE]
    /\ UNCHANGED lastConfirm
    /\ LayoutFrame

CloseSidebar ==
    /\ ~IsExamMode
    /\ layout.isSidebarOpen
    /\ layout' = [layout EXCEPT !.isSidebarOpen = FALSE]
    /\ UNCHANGED lastConfirm
    /\ LayoutFrame

LayoutNext ==
    \/ \E release \in ExamReleases, confirmed \in BOOLEAN : StartExamCalled(release, confirmed)
    \/ \E view \in Views, confirmed \in BOOLEAN : HandleNavigateCalled(view, confirmed)
    \/ HandleExamCompleteCalled
    \/ OnExitCalled
    \/ OpenSidebar
    \/ CloseSidebar

\* The layout under every sequence of calls of its handlers.
LayoutSpec == LayoutInit /\ [][LayoutNext]_vars

(***************************************************************************)
(* Properties of the layout's handlers.                                    *)
(***************************************************************************)
\* C16: after any sequence of startExam, handleNavigate (with any View),
\* handleExamComplete and onExit, currentView is 'exam' exactly when
\* activeExam is not null.
C16_ExamViewIffActiveExam ==
    layout.currentView = "exam" <=> layout.activeExam # NoRelease

\* What a call handleNavigate(view) does, the dialog answered by confirmed,
\* inExam being the view an accepted call made during an exam leads to.
NavigateDoes(view, confirmed, inExam) ==
    IF layout.currentView = "exam"
    THEN /\ lastConfirm' = [by |-> "handleNavigate", ok |-> confirmed]
         /\ IF confirmed
            THEN /\ layout'.activeExam = NoRelease
                 /\ layout'.currentView = inExam
                 /\ ~layout'.isSidebarOpen
            ELSE UNCHANGED layout
    ELSE /\ UNCHANGED lastConfirm
         /\ layout'.currentView = IF view \in StudentViews THEN view ELSE layout.currentView
         /\ layout'.activeExam = layout.activeExam
         /\ ~layout'.isSidebarOpen

NoRoom ==
    /\ test = NotLoaded
    /\ student = NoStudent
    /\ examLoading = TRUE
    /\ submitting = FALSE
    /\ answers = <<>>
    /\ currentQIndex = 0
    /\ loadPc = "done"
    /\ submitPc = "idle"
    /\ graded = NotGraded
    /\ failedSubmits = 0
    /\ exitSignal = "none"
    /\ lastSelected = <<>>
    /\ selectedAtSubmit = <<>>
    /\ changedSelection = FALSE

\* A room is mounted: the initial state of the component (StudentExamRoom.tsx:16-23),
\* and its effect calls initExam (line 74).
RoomMounts ==
    /\ test' = NotLoaded
    /\ student' = NoStudent
    /\ examLoading' = TRUE
    /\ submitting' = FALSE
    /\ answers' = <<>>
    /\ currentQIndex' = 0
    /\ loadPc' = "student"
    /\ submitPc' = "idle"
    /\ graded' = NotGraded
    /\ exitSignal' = "none"
    /\ lastSelected' = <<>>
    /\ selectedAtSubmit' = <<>>
    /\ changedSelection' = FALSE
    /\ UNCHANGED failedSubmits

PortalInit ==
    /\ \E rel \in ReleaseTables :
         /\ school = [School0 EXCEPT !.app_user = TRUE, !.student.exists = TRUE,
                                     !.test_releases = rel]
         /\ test_results \in {ResultRowsFor(ids) : ids \in SUBSET {rel[i].id : i \in DOMAIN rel}}
    /\ tqRows = <<BankRow2, BankRow1>>
    /\ student_test_answers = <<>>
    /\ test_attempt_logs = <<>>
    /\ ViewerIdle
    /\ NoRoom
    /\ AppAtRest
    /\ DashAtRest
    /\ LayoutAtRest

\* "Iniciar Prova" on a card of the active tests grid (part_000:216-245)
\* calls startExam with the release of the card (part_001:38-43).
StartExam ==
    /\ DashMounted
    /\ dashPc.render = "done"
    /\ \E i \in DOMAIN lists.activeTests, confirmed \in BOOLEAN :
         LET l == StartExamWith(layout, lists.activeTests[i], confirmed)
         IN  /\ layout' = l
             /\ lastConfirm' = [by |-> "startExam", ok |-> confirmed]
             /\ DashFollows(l)
             /\ IF confirmed THEN RoomMounts ELSE UNCHANGED examVars
    /\ UNCHANGED <<backendVars, appVars, viewerVars, clock>>

\* A button of the sidebar (part_001:98-110, 139-151) calls handleNavigate.
HandleNavigate ==
    /\ ~IsExamMode
    /\ \E view \in StudentViews, confirmed \in BOOLEAN :
         LET l == HandleNavigateTo(layout, view, confirmed)
         IN  /\ layout' = l
             /\ lastConfirm' = IF layout.currentView = "exam"
                               THEN [by |-> "handleNavigate", ok |-> confirmed]
                               ELSE lastConfirm
             /\ DashFollows(l)
    /\ UNCHANGED <<backendVars, examVars, appVars, viewerVars, clock>>

PortalNext ==
    \/ DashEffect
    \/ DashTimerFires
    \/ DashAppUserReturn
    \/ DashStudentReturn
    \/ DashReleasesReturn
    \/ DashResultsReturn
    \/ DashRenderStarts
    \/ DashFilterStep
    \/ ClockTick
    \/ StartExam
    \/ HandleNavigate
    \/ OpenSidebar
    \/ CloseSidebar

\* The portal from its first render to the start of an exam; what the room
\* does from its mount on is Spec.
PortalSpec == PortalInit /\ [][PortalNext]_vars

(***************************************************************************)
(* Properties of the portal.                                               *)
(***************************************************************************)
\* test_results holds a row for the release r.
HasResultRow(r) == \E i \in DOMAIN test_results : test_results[i].test_release_id = r.id

\* C15: the layout enters exam mode for a release only through startExam
\* after the user confirmed, and the dashboard offers startExam for releases
\* of status 'active' only: an exam is never started for a release that has
\* a test_results row, whose start_time is in the future or whose end_time
\* has passed; and a declined dialog leaves currentView and activeExam
\* unchanged.
C15_ExamStartedForActiveReleaseOnly ==
    [][/\ (IsExamMode' /\ ~IsExamMode) =>
            /\ lastConfirm' = [by |-> "startExam", ok |-> TRUE]
            /\ ~HasResultRow(layout'.activeExam)
            /\ layout'.activeExam.start_time <= clock
            /\ clock <= layout'.activeExam.end_time
       /\ (lastConfirm' # lastConfirm /\ lastConfirm' = [by |-> "startExam", ok |-> FALSE]) =>
            UNCHANGED layout]_vars

(***************************************************************************)
(* StudentClassViewer: fetchData.                                          *)
(*                                                                         *)
(* The component is mounted in the portal with a client.  Of a row the     *)
(* model keeps what the code looks at: a discipline and a class_professors *)
(* row is the id of its professor, NullId without one.                     *)
(***************************************************************************)
\* Most disciplines of a grade, and most class_professors rows of a class.
MaxRows == 2

\* The sequences of at most n professor ids.
ProfessorRows(n) == UNION {[1..k -> {NullId, 7}] : k \in 0..n}

\* What no step of the class view touches.
ViewerFrame == UNCHANGED <<examVars, appVars, dashVars, layoutVars>>

\* What a select query does to the backend tables.
ViewerSelectOnly == UNCHANGED <<backendVars, school>>

ViewerInit ==
    /\ \E au \in BOOLEAN, st \in BOOLEAN, cl \in {NullId, 3}, gr \in {NullId, 5} :
       \E ds \in ProfessorRows(MaxRows), cps \in ProfessorRows(MaxRows) :
         school = [School0 EXCEPT !.app_user = au,
                                  !.student = [exists |-> st, class_id |-> cl],
                                  !.class = [grade_id |-> gr],
                                  !.disciplines = ds,
                                  !.class_professors = cps]
    /\ tqRows = <<>>
    /\ test_results = <<>>
    /\ student_test_answers = <<>>
    /\ test_attempt_logs = <<>>
    /\ ViewerIdle
    /\ ExamAtRest
    /\ AppAtRest
    /\ DashAtRest
    /\ LayoutAtRest

\* catch and finally of fetchData (StudentClassViewer.tsx:103-108).
ViewerFails ==
    /\ viewer' = [viewer EXCEPT !.error = TRUE, !.loading = FALSE]
    /\ viewerPc' = [viewerPc EXCEPT !.at = "done"]

\* The effect calls fetchData, which runs to auth.getUser()
\* (StudentClassViewer.tsx:21-27, 111).
ViewerMount ==
    /\ viewerPc.at = "idle"
    /\ viewer' = [viewer EXCEPT !.loading = TRUE]
    /\ viewerPc' = [viewerPc EXCEPT !.at = "getUser"]
    /\ ViewerSelectOnly
    /\ ViewerFrame

\* auth.getUser() answers (StudentClassViewer.tsx:27-30): without a user
\* fetchData throws.
ViewerGetUserReturn ==
    /\ viewerPc.at = "getUser"
    /\ \E user \in BOOLEAN :
         IF user
         THEN /\ viewerPc' = [viewerPc EXCEPT !.at = "appUser"]
              /\ UNCHANGED viewer
         ELSE ViewerFails
    /\ ViewerSelectOnly
    /\ ViewerFrame

\* The app_users query answers (StudentClassViewer.tsx:30-31); its error is
\* not looked at.
ViewerAppUserReturn ==
    /\ viewerPc.at = "appUser"
    /\ \E error \in BOOLEAN :
         viewerPc' = [viewerPc EXCEPT !.at = "student",
                                      !.appUser = ~error /\ school.app_user]
    /\ UNCHANGED viewer
    /\ ViewerSelectOnly
    /\ ViewerFrame

\* The students query answering as in ViewerStudentReturn, with a students
\* row inserted for a user who has none.
ViewerStudentReturnEnrolling ==
    /\ viewerPc.at = "student"
    /\ \E error \in BOOLEAN :
         LET found == ~error /\ viewerPc.appUser /\ school.student.exists
         IN  IF ~found \/ school.student.class_id = NullId
             THEN /\ viewer' = [viewer EXCEPT !.loading = FALSE]
                  /\ viewerPc' = [viewerPc EXCEPT !.at = "done"]
                  /\ school' = [school EXCEPT !.student.exists = TRUE]
             ELSE /\ viewerPc' = [viewerPc EXCEPT !.at = "class",
                                                  !.classId = school.student.class_id]
                  /\ UNCHANGED <<viewer, school>>
    /\ UNCHANGED backendVars
    /\ ViewerFrame

\* The students query answers (StudentClassViewer.tsx:31-43, 106-108):
\* without appUser it asks for user_id = undefined and brings no row.
ViewerStudentReturn ==
    /\ viewerPc.at = "student"
    /\ \E error \in BOOLEAN :
         LET found == ~error /\ viewerPc.appUser /\ school.student.exists
         IN  IF ~found \/ school.student.class_id = NullId
             THEN /\ viewer' = [viewer EXCEPT !.loading = FALSE]
                  /\ viewerPc' = [viewerPc EXCEPT !.at = "done"]
             ELSE /\ viewerPc' = [viewerPc EXCEPT !.at = "class",
                                                  !.classId = school.student.class_id]
                  /\ UNCHANGED viewer
    /\ ViewerSelectOnly
    /\ ViewerFrame

\* The classes query answers (StudentClassViewer.tsx:39-60, 79-88).
ViewerClassReturn ==
    /\ viewerPc.at = "class"
    /\ \E clsError \in BOOLEAN :
         IF clsError
         THEN ViewerFails
         ELSE /\ viewer' = [viewer EXCEPT !.classData = viewerPc.classId]
              /\ viewerPc' = [viewerPc EXCEPT
                     !.gradeId = school.class.grade_id,
                     !.at = IF school.class.grade_id # NullId THEN "disciplines"
                            ELSE "classProfessors"]
    /\ ViewerSelectOnly
    /\ ViewerFrame

\* The disciplines query answers (StudentClassViewer.tsx:51-88): on an error
\* the list is empty.
ViewerDisciplinesReturn ==
    /\ viewerPc.at = "disciplines"
    /\ \E discError \in BOOLEAN :
         viewer' = [viewer EXCEPT !.disciplines = IF discError THEN <<>>
                                                  ELSE school.disciplines]
    /\ viewerPc' = [viewerPc EXCEPT !.at = "classProfessors"]
    /\ ViewerSelectOnly
    /\ ViewerFrame

\* The class_professors query answers (StudentClassViewer.tsx:79-108): a row
\* without professor makes the mapping throw.
ViewerClassProfessorsReturn ==
    /\ viewerPc.at = "classProfessors"
    /\ \E cpError \in BOOLEAN :
         IF cpError
         THEN /\ viewer' = [viewer EXCEPT !.loading = FALSE]
              /\ viewerPc' = [viewerPc EXCEPT !.at = "done"]
         ELSE IF \E i \in DOMAIN school.class_professors :
                    school.class_professors[i] = NullId
         THEN ViewerFails
         ELSE /\ viewer' = [viewer EXCEPT !.classProfessors = school.class_professors,
                                          !.loading = FALSE]
              /\ viewerPc' = [viewerPc EXCEPT !.at = "done"]
    /\ ViewerSelectOnly
    /\ ViewerFrame

ViewerNext ==
    \/ ViewerMount
    \/ ViewerGetUserReturn
    \/ ViewerAppUserReturn
    \/ ViewerStudentReturn
    \/ ViewerClassReturn
    \/ ViewerDisciplinesReturn
    \/ ViewerClassProfessorsReturn

\* The class view from its first render on.
ViewerSpec == ViewerInit /\ [][ViewerNext]_vars

(***************************************************************************)
(* Properties of the class view.                                           *)
(***************************************************************************)
\* C9: no step of StudentClassViewer (mount, an answer to any of its
\* queries, with or without error) inserts, updates or deletes a backend
\* row: every step leaves the backend tables as they were.
C9_ClassViewReadOnly ==
    [][UNCHANGED <<tqRows, test_results, student_test_answers, test_attempt_logs,
                   school>>]_vars

\* The view has loaded a class with disciplines and professors.
C9_Witness ==
    /\ viewerPc.at = "done"
    /\ ~viewer.error
    /\ ~viewer.loading
    /\ viewer.classData # NullId
    /\ Len(viewer.disciplines) = 2
    /\ Len(viewer.classProfessors) = 1

=============================================================================
